---- MODULE Spec2Model ----
(***************************************************************************)
(* InvestorLens retrieval-and-ranking core.                                *)
(*                                                                         *)
(*   SpecRank   - persona_ranker.rank_candidates over drawn candidate      *)
(*                lists and the five personas of persona_configs.PERSONAS. *)
(*   SpecParse  - query_parser.parse_query and resolve_company over drawn  *)
(*                query texts.                                             *)
(*   SpecGraph  - graph_traversal.get_competitors_to and                   *)
(*                get_acquisition_targets over drawn graphs, followed by   *)
(*                the ranking step of search_pipeline.search.              *)
(*   SpecSearch - search_pipeline.search and agents.nodes.rank_node over   *)
(*                drawn requests, graphs and failing graph-store queries.  *)
(*   SpecAgent  - the LangGraph pipeline of agents.graph: data_gathering,  *)
(*                tools, rank, explain and synthesize, over drawn          *)
(*                sequences of LLM tool calls.                             *)
(*   SpecLookup - threads calling resolve_company while the alias table    *)
(*                of query_parser._build_lookup is not built yet.          *)
(*                                                                         *)
(* Numbers.  Weights are in hundredths (0.25 -> 25).  Normalised attribute *)
(* values are in units of 1e-4 (1.0 -> NormOne).  A weighted contribution  *)
(* (norm * weight) and the unrounded composite are therefore in units of   *)
(* 1e-6; round(x, 4) maps them to units of 1e-4, the unit of               *)
(* composite_score and of every score_breakdown entry.  Edge strengths,    *)
(* partnership_fit and competitive_threat are in hundredths.               *)
(* An optional value (float | None) is <<>> for None and <<v>> for v.      *)
(***************************************************************************)
EXTENDS Integers, Sequences, FiniteSets, TLC

VARIABLES
    candidates,   \* the list handed to rank_candidates (CandidateCompany records)
    persona,      \* name of the PersonaConfig handed to rank_candidates
    ranked,       \* Some(list returned by the latest call), None before any call
    earlier,      \* Some(list returned by the call before the latest), else None
    query_text,   \* the text handed to parse_query and resolve_company
    parsed,       \* Some(ParsedQuery returned by parse_query), None before the call
    rung,         \* the return statement of parse_query that produced parsed
    resolved,     \* Some(result of resolve_company(query_text)), None before the call
    graph,        \* the contents of the graph store
    center,       \* the company_id handed to get_competitors_to
    retrieved,    \* Some(list returned by get_competitors_to), None before the call
    acquirer_id,  \* the acquirer handed to get_acquisition_targets
    acquired,     \* Some(list returned by get_acquisition_targets), None before the call
    caller_persona, \* the persona argument of search / state["persona"] of rank_node
    fail_at,      \* which graph-store query of the request raises (0: none does)
    gathered,     \* state["gathered_candidates"] of rank_node, as a list
    outcome,      \* Some(what search or rank_node returned or raised), None before the call
    next_node,    \* the node the agent graph runs next ("END" when the run is over)
    executed,     \* the nodes the agent graph has run so far, in order
    agent_state,  \* the AgentState fields besides query, persona and gathered_candidates
    company_lookup, \* the module global _COMPANY_LOOKUP: None, or Some(the table object)
    callers,      \* the threads calling resolve_company: place, argument, locals
    catalog_reads \* how often COMPANIES_FILE was opened and read

vars == <<candidates, persona, ranked, earlier, query_text, parsed, rung, resolved,
          graph, center, retrieved, acquirer_id, acquired,
          caller_persona, fail_at, gathered, outcome,
          next_node, executed, agent_state, company_lookup, callers, catalog_reads>>
rankVars  == <<candidates, persona, ranked, earlier>>
parseVars == <<query_text, parsed, rung, resolved>>
graphVars == <<graph, center, retrieved, acquirer_id, acquired>>
searchVars == <<caller_persona, fail_at, gathered, outcome>>
agentVars == <<next_node, executed, agent_state>>
lookupVars == <<company_lookup, callers, catalog_reads>>

-----------------------------------------------------------------------------
(* Bounds *)

MaxCands == 2     \* longest candidate list drawn
MaxNames == 5     \* names, of the list Names, a drawn query text may use
MaxNodes == 3     \* Company nodes in a drawn graph

-----------------------------------------------------------------------------
(* Optional values *)

None == <<>>
Some(v) == <<v>>

Min2(a, b) == IF a < b THEN a ELSE b
Max2(a, b) == IF a > b THEN a ELSE b

-----------------------------------------------------------------------------
(* persona_configs.py *)

PersonaNames ==
    <<"value_investor", "pe_firm", "growth_vc", "strategic_acquirer", "enterprise_buyer">>

\* PersonaConfig.weights, as the ordered list of (attribute, weight) pairs of
\* the dict literal (weights in hundredths), with inverted_attributes.
PERSONAS ==
    [ value_investor |->
        [ weights |-> << <<"moat_durability", 25>>,
                         <<"free_cash_flow_positive", 20>>,
                         <<"customer_switching_cost", 20>>,
                         <<"low_debt", 15>>,
                         <<"revenue_predictability", 10>>,
                         <<"valuation_margin", 10>> >>,
          inverted_attributes |-> {"low_debt", "valuation_margin"} ],
      pe_firm |->
        [ weights |-> << <<"operating_margin", 25>>,
                         <<"operational_improvement_potential", 20>>,
                         <<"revenue_predictability", 20>>,
                         <<"valuation_margin", 15>>,
                         <<"customer_switching_cost", 10>>,
                         <<"enterprise_readiness_score", 10>> >>,
          inverted_attributes |-> {"valuation_margin"} ],
      growth_vc |->
        [ weights |-> << <<"yoy_employee_growth", 25>>,
                         <<"market_timing_score", 25>>,
                         <<"developer_adoption_score", 20>>,
                         <<"github_stars_normalized", 15>>,
                         <<"product_maturity_inverse", 15>> >>,
          inverted_attributes |-> {"product_maturity_inverse"} ],
      strategic_acquirer |->
        [ weights |-> << <<"moat_durability", 25>>,
                         <<"partnership_fit", 20>>,
                         <<"competitive_threat", 20>>,
                         <<"developer_adoption_score", 15>>,
                         <<"small_enough_to_acquire", 10>>,
                         <<"product_maturity_score", 10>> >>,
          inverted_attributes |-> {"small_enough_to_acquire"} ],
      enterprise_buyer |->
        [ weights |-> << <<"product_maturity_score", 25>>,
                         <<"enterprise_readiness_score", 20>>,
                         <<"partnership_count", 20>>,
                         <<"customer_switching_cost_inverse", 15>>,
                         <<"revenue_predictability", 10>>,
                         <<"developer_adoption_score", 10>> >>,
          inverted_attributes |-> {"customer_switching_cost_inverse"} ] ]

\* get_persona returning a config with one more weighted attribute.
get_persona_reweighted(name) ==
    [PERSONAS[name] EXCEPT !.weights = Append(@, <<"market_timing_score", 5>>)]

\* get_persona(name)
get_persona(name) == PERSONAS[name]

\* ATTRIBUTE_SOURCE_MAP: scoring attribute -> <<source type, raw field>>.
ATTRIBUTE_SOURCE_MAP ==
    [ moat_durability                   |-> <<"llm", "moat_durability">>,
      customer_switching_cost           |-> <<"llm", "customer_switching_cost">>,
      revenue_predictability            |-> <<"llm", "revenue_predictability">>,
      operational_improvement_potential |-> <<"llm", "operational_improvement_potential">>,
      enterprise_readiness_score        |-> <<"llm", "enterprise_readiness_score">>,
      developer_adoption_score          |-> <<"llm", "developer_adoption_score">>,
      product_maturity_score            |-> <<"llm", "product_maturity_score">>,
      market_timing_score               |-> <<"llm", "market_timing_score">>,
      operating_margin                  |-> <<"financial", "operating_margin">>,
      valuation_margin                  |-> <<"financial", "price_to_sales">>,
      low_debt                          |-> <<"financial", "debt_to_equity">>,
      free_cash_flow_positive           |-> <<"financial", "free_cash_flow_b">>,
      small_enough_to_acquire           |-> <<"financial", "market_cap_b">>,
      yoy_employee_growth               |-> <<"growth", "yoy_employee_growth">>,
      github_stars_normalized           |-> <<"growth", "github_stars">>,
      partnership_fit                   |-> <<"graph", "partnership_fit">>,
      competitive_threat                |-> <<"graph", "competitive_threat">>,
      partnership_count                 |-> <<"graph", "partnership_count">>,
      product_maturity_inverse          |-> <<"llm", "product_maturity_score">>,
      customer_switching_cost_inverse   |-> <<"llm", "customer_switching_cost">> ]

-----------------------------------------------------------------------------
(* graph_traversal.CandidateCompany *)

\* The dataclass with its field defaults: every LLM, financial and growth
\* field is None, the graph context is empty and the four graph-derived fields
\* are 0 (never None).  name and sector, and the four financial fields no
\* scoring attribute reads, are left out.
CandidateCompany(company_id) ==
    [ company_id                        |-> company_id,
      moat_durability                   |-> None,
      enterprise_readiness_score        |-> None,
      developer_adoption_score          |-> None,
      product_maturity_score            |-> None,
      customer_switching_cost           |-> None,
      revenue_predictability            |-> None,
      market_timing_score               |-> None,
      operational_improvement_potential |-> None,
      market_cap_b                      |-> None,
      operating_margin                  |-> None,
      free_cash_flow_b                  |-> None,
      debt_to_equity                    |-> None,
      price_to_sales                    |-> None,
      yoy_employee_growth               |-> None,
      github_stars                      |-> None,
      graph_edges                       |-> <<>>,
      competition_strength              |-> 0,
      partnership_count                 |-> 0,
      partnership_fit                   |-> 0,
      competitive_threat                |-> 0 ]

GraphFields == {"partnership_fit", "competitive_threat", "partnership_count"}

-----------------------------------------------------------------------------
(* persona_ranker.py *)

NormOne  == 10000     \* 1.0 as a normalised value
NormHalf == 5000      \* 0.5, the default for a missing value

\* _extract_raw_value: the raw value of a scoring attribute, None when the
\* attribute is not in ATTRIBUTE_SOURCE_MAP.  The graph-derived fields hold a
\* plain number, which is wrapped here.
_extract_raw_value(cand, attr_name) ==
    IF attr_name \notin DOMAIN ATTRIBUTE_SOURCE_MAP THEN None
    ELSE LET source_field == ATTRIBUTE_SOURCE_MAP[attr_name][2]
         IN  IF source_field \in GraphFields THEN Some(cand[source_field])
             ELSE cand[source_field]

\* _normalize_llm_score without the clamp to [0, 1].
normalize_llm_score_unclamped(value) ==
    IF value = None THEN NormHalf ELSE (value[1] * NormOne) \div 10

\* _normalize_llm_score with None scored as 0 instead of the neutral 0.5.
normalize_llm_score_zero_default(value) ==
    IF value = None THEN 0
    ELSE Max2(0, Min2(NormOne, (value[1] * NormOne) \div 10))

\* _normalize_llm_score: value / 10 clamped to [0, 1]; 0.5 for None.
_normalize_llm_score(value) ==
    IF value = None THEN NormHalf
    ELSE Max2(0, Min2(NormOne, (value[1] * NormOne) \div 10))

RECURSIVE SeqMin(_), SeqMax(_)
SeqMin(s) == IF Len(s) = 1 THEN s[1] ELSE Min2(s[1], SeqMin(Tail(s)))
SeqMax(s) == IF Len(s) = 1 THEN s[1] ELSE Max2(s[1], SeqMax(Tail(s)))

\* _minmax_normalize: min-max over the non-None values; 0.5 for None, for a
\* zero span and when every value is None.
_minmax_normalize(values, invert) ==
    LET clean == SelectSeq(values, LAMBDA v : v # None) IN
    IF clean = <<>> THEN [i \in 1..Len(values) |-> NormHalf]
    ELSE LET nums == [i \in 1..Len(clean) |-> clean[i][1]]
             vmin == SeqMin(nums)
             vmax == SeqMax(nums)
             span == vmax - vmin
         IN  [i \in 1..Len(values) |->
                IF values[i] = None THEN NormHalf
                ELSE IF span = 0 THEN NormHalf
                ELSE LET normalized == ((values[i][1] - vmin) * NormOne) \div span
                     IN  IF invert THEN NormOne - normalized ELSE normalized]

\* The normalisation branch of rank_candidates for one attribute: the list
\* of normalised values, one per candidate.
NormalizeAttr(attr_name, raw_values, inverted) ==
    IF attr_name \notin DOMAIN ATTRIBUTE_SOURCE_MAP
    THEN [i \in 1..Len(raw_values) |-> NormHalf]
    ELSE LET source_type   == ATTRIBUTE_SOURCE_MAP[attr_name][1]
             should_invert == attr_name \in inverted
         IN  IF attr_name = "free_cash_flow_positive"
             THEN [i \in 1..Len(raw_values) |->
                     IF raw_values[i] # None /\ raw_values[i][1] > 0 THEN NormOne ELSE 0]
             ELSE IF source_type = "llm"
             THEN [i \in 1..Len(raw_values) |->
                     IF should_invert THEN NormOne - _normalize_llm_score(raw_values[i])
                     ELSE _normalize_llm_score(raw_values[i])]
             ELSE IF source_type \in {"financial", "growth", "graph"}
             THEN _minmax_normalize(raw_values, should_invert)
             ELSE [i \in 1..Len(raw_values) |-> NormHalf]

\* round(x, 4) of a value in units of 1e-6, in units of 1e-4 (half to even).
Round4(x) ==
    LET q == x \div 100
        r == x % 100
    IN  IF r > 50 THEN q + 1
        ELSE IF r < 50 THEN q
        ELSE IF q % 2 = 0 THEN q ELSE q + 1

EdgeTypes(cand) == {cand.graph_edges[i].type : i \in 1..Len(cand.graph_edges)}

\* The boost as an if / elif chain: the first edge type present decides.
GraphBoostFirstWins(cand) ==
    LET edge_types == EdgeTypes(cand) IN
    IF "COMPETES_WITH" \in edge_types
    THEN IF cand.competition_strength # 0
         THEN Max2(0, 1500 * cand.competition_strength) ELSE 100000
    ELSE IF "DISRUPTS" \in edge_types THEN 100000
    ELSE IF "TARGETS_SAME_SEGMENT" \in edge_types THEN 50000
    ELSE 0

\* The graph relevance boost of one candidate, in units of 1e-6.
GraphBoost(cand) ==
    LET edge_types == EdgeTypes(cand)
        b1 == IF "COMPETES_WITH" \in edge_types
              THEN IF cand.competition_strength # 0
                   THEN Max2(0, 1500 * cand.competition_strength)
                   ELSE 100000
              ELSE 0
        b2 == IF "DISRUPTS" \in edge_types THEN Max2(b1, 100000) ELSE b1
    IN  IF "TARGETS_SAME_SEGMENT" \in edge_types /\ b2 = 0 THEN 50000 ELSE b2

\* weights[attr_name] of the persona's weight dict.
WeightOf(weights, attr_name) ==
    weights[CHOOSE k \in 1..Len(weights) : weights[k][1] = attr_name][2]

\* composite after the loop over weights.items(): the sum of norm * weight.
RECURSIVE SumWeighted(_, _, _)
SumWeighted(weights, attr_normalized, i) ==
    IF weights = <<>> THEN 0
    ELSE attr_normalized[weights[1][1]][i] * weights[1][2]
         + SumWeighted(Tail(weights), attr_normalized, i)

\* The insertion of a sort into a list of distinct scores: a result whose
\* score is already in the list is dropped.
RECURSIVE InsertDescDistinct(_, _)
InsertDescDistinct(sorted, r) ==
    IF sorted = <<>> THEN <<r>>
    ELSE IF sorted[Len(sorted)].composite_score = r.composite_score
         THEN sorted
         ELSE IF sorted[Len(sorted)].composite_score > r.composite_score
         THEN Append(sorted, r)
         ELSE Append(InsertDescDistinct(SubSeq(sorted, 1, Len(sorted) - 1), r),
                     sorted[Len(sorted)])

\* The insertion of an unstable sort: a result goes before the results of
\* equal score that came earlier.
RECURSIVE InsertDescUnstable(_, _)
InsertDescUnstable(sorted, r) ==
    IF sorted = <<>> THEN <<r>>
    ELSE IF sorted[Len(sorted)].composite_score > r.composite_score
         THEN Append(sorted, r)
         ELSE Append(InsertDescUnstable(SubSeq(sorted, 1, Len(sorted) - 1), r),
                     sorted[Len(sorted)])

\* results.sort(key=composite_score, reverse=True): a stable sort, so equal
\* scores keep their list order.
RECURSIVE InsertDesc(_, _)
InsertDesc(sorted, r) ==
    IF sorted = <<>> THEN <<r>>
    ELSE IF sorted[Len(sorted)].composite_score >= r.composite_score
         THEN Append(sorted, r)
         ELSE Append(InsertDesc(SubSeq(sorted, 1, Len(sorted) - 1), r), sorted[Len(sorted)])

\* The sort left out: results stay in candidate order.
SortDescSkipped(results) == results

RECURSIVE SortDesc(_)
SortDesc(results) ==
    IF results = <<>> THEN <<>>
    ELSE InsertDesc(SortDesc(SubSeq(results, 1, Len(results) - 1)), results[Len(results)])

\* rank_candidates(candidates, persona): the ranked RankedResult list.
rank_candidates(cands, p) ==
    IF cands = <<>> THEN <<>>
    ELSE
    LET weights  == PERSONAS[p].weights
        inverted == PERSONAS[p].inverted_attributes
        names    == {weights[k][1] : k \in 1..Len(weights)}
        attr_raw == [a \in names |->
                        [i \in 1..Len(cands) |-> _extract_raw_value(cands[i], a)]]
        attr_normalized == [a \in names |-> NormalizeAttr(a, attr_raw[a], inverted)]
        results == [i \in 1..Len(cands) |->
            LET graph_boost == GraphBoost(cands[i])
                composite   == SumWeighted(weights, attr_normalized, i) + graph_boost
            IN  [ company_id      |-> cands[i].company_id,
                  composite_score |-> Round4(composite),
                  score_breakdown |->
                      [a \in names \cup {"_graph_boost"} |->
                          IF a = "_graph_boost" THEN Round4(graph_boost)
                          ELSE Round4(attr_normalized[a][i] * WeightOf(weights, a))],
                  graph_context   |-> cands[i].graph_edges,
                  rank            |-> 0 ]]
        sorted == SortDesc(results)
    IN  [i \in 1..Len(sorted) |-> [sorted[i] EXCEPT !.rank = i]]

-----------------------------------------------------------------------------
(* Candidate lists drawn for SpecRank *)

Edge(t, d) == [type |-> t, detail |-> d]

\* Attribute profiles: l for the six LLM scores read directly, li for the two
\* LLM scores some persona reads inverted, n for the min-max fields read
\* directly, ni for the min-max fields read inverted, f for free cash flow,
\* then partnership_count, partnership_fit and competitive_threat.
Attrs(l, li, n, ni, f, pc, fit, thr) ==
    [ moat_durability                   |-> l,
      revenue_predictability            |-> l,
      operational_improvement_potential |-> l,
      enterprise_readiness_score        |-> l,
      developer_adoption_score          |-> l,
      market_timing_score               |-> l,
      product_maturity_score            |-> li,
      customer_switching_cost           |-> li,
      operating_margin                  |-> n,
      yoy_employee_growth               |-> n,
      github_stars                      |-> n,
      price_to_sales                    |-> ni,
      debt_to_equity                    |-> ni,
      market_cap_b                      |-> ni,
      free_cash_flow_b                  |-> f,
      partnership_count                 |-> pc,
      partnership_fit                   |-> fit,
      competitive_threat                |-> thr ]

AttrProfiles ==
    { Attrs(None, None, None, None, None, 0, 0, 0),                        \* nothing known
      Attrs(Some(12), Some(10), Some(4), Some(0), Some(2), 3, 80, 60),     \* strong
      Attrs(Some(3), Some(2), Some(0), Some(4), Some(-1), 0, 0, 0) }       \* weak

\* Edge profiles: the edge list and the competition_strength that goes with
\* it (non-zero only beside a COMPETES_WITH edge, as retrieval sets it).
EdgeProfile(edges, s) == [graph_edges |-> edges, competition_strength |-> s]

EdgeProfiles ==
    { EdgeProfile(<<>>, 0),
      EdgeProfile(<<Edge("SHARES_INVESTMENT_THEME", 1)>>, 0),
      EdgeProfile(<<Edge("TARGETS_SAME_SEGMENT", "seg")>>, 0),
      EdgeProfile(<<Edge("DISRUPTS", "disrupts")>>, 0),
      EdgeProfile(<<Edge("COMPETES_WITH", Some(0))>>, 0),
      EdgeProfile(<<Edge("COMPETES_WITH", Some(50))>>, 50),
      EdgeProfile(<<Edge("COMPETES_WITH", Some(100)), Edge("TARGETS_SAME_SEGMENT", "seg"),
                    Edge("SHARES_INVESTMENT_THEME", 1)>>, 100),
      EdgeProfile(<<Edge("COMPETES_WITH", Some(50)), Edge("DISRUPTS", "disrupted_by")>>, 50) }

CompanyIds == <<"c1", "c2", "c3", "c4">>

\* The candidate with identifier id, attribute profile a and edge profile e.
Candidate(id, a, e) == e @@ a @@ CandidateCompany(id)

PersonaSet == {PersonaNames[i] : i \in 1..Len(PersonaNames)}

-----------------------------------------------------------------------------
(* SpecRank: rank_candidates called on one drawn list *)

InitRank ==
    /\ \E n \in 0..MaxCands :
         \E as \in [1..n -> AttrProfiles], es \in [1..n -> EdgeProfiles] :
            candidates = [i \in 1..n |-> Candidate(CompanyIds[i], as[i], es[i])]
    /\ persona \in PersonaSet
    /\ ranked = None
    /\ earlier = None
    /\ query_text = <<>> /\ parsed = None /\ rung = "" /\ resolved = None
    /\ graph = <<>> /\ center = "" /\ retrieved = None
    /\ acquirer_id = "" /\ acquired = None
    /\ caller_persona = "" /\ fail_at = 0 /\ gathered = <<>> /\ outcome = None
    /\ next_node = "" /\ executed = <<>> /\ agent_state = <<>>
    /\ company_lookup = None /\ callers = <<>> /\ catalog_reads = 0

\* rank_candidates consuming its input: the edge lists it hands out as
\* graph_context are cleared on the candidates.
RankCandidatesConsuming ==
    /\ earlier = None
    /\ ranked' = Some(rank_candidates(candidates, persona))
    /\ earlier' = ranked
    /\ candidates' = [i \in 1..Len(candidates) |->
                         [candidates[i] EXCEPT !.graph_edges = <<>>]]
    /\ UNCHANGED <<persona, parseVars, graphVars, searchVars, agentVars, lookupVars>>

\* One call rank_candidates(candidates, persona_config).  The candidates are
\* borrowed read-only: the call builds new RankedResult objects and sorts its
\* own list.  A call and one repeat of it are observed.
RankCandidates ==
    /\ earlier = None
    /\ ranked' = Some(rank_candidates(candidates, persona))
    /\ earlier' = ranked
    /\ UNCHANGED <<candidates, persona, parseVars, graphVars, searchVars, agentVars, lookupVars>>

NextRank == RankCandidates

SpecRank == InitRank /\ [][NextRank]_vars

-----------------------------------------------------------------------------
(* Properties of rank_candidates (SpecRank) *)

\* The candidate a result was computed from (identifiers are unique in a list).
CandOf(id) == candidates[CHOOSE i \in 1..Len(candidates) : candidates[i].company_id = id]

\* The list returned by the latest call (empty before any call) and the
\* set of its results.
Ranked == IF ranked = None THEN <<>> ELSE ranked[1]
Results == {Ranked[i] : i \in 1..Len(Ranked)}

BoostOf(r) == r.score_breakdown["_graph_boost"]

\* C1: every RankedResult has composite_score within [0.0, 1.15]; its graph
\* boost is at most 0.15 and the rest of the score (the weighted sum) is at
\* most 1.0.
C1_ScoreWithinBounds ==
    \A r \in Results :
        /\ 0 <= r.composite_score /\ r.composite_score <= 11500
        /\ 0 <= BoostOf(r) /\ BoostOf(r) <= 1500
        /\ r.composite_score - BoostOf(r) <= 10000

\* A result whose score passes 1.0 thanks to the boost, up to the bound itself.
C1_Witness ==
    \E r \in Results : r.composite_score = 11500

\* C2: in a returned list of n results the ranks are 1..n in list order and
\* composite_score never increases as rank increases.
C2_DenseRanksSortedScores ==
    /\ \A i \in 1..Len(Ranked) : Ranked[i].rank = i
    /\ \A i \in 1..Len(Ranked) - 1 :
           Ranked[i].composite_score >= Ranked[i + 1].composite_score

\* A list the sort had to reorder: the second candidate out-scores the first.
C2_Witness ==
    /\ Len(Ranked) >= 2
    /\ Ranked[1].company_id = CompanyIds[2]
    /\ Ranked[1].composite_score > Ranked[2].composite_score

C5_DirectCompetitionDominates ==
    \A r \in Results :
        LET c == CandOf(r.company_id)
        IN  ("COMPETES_WITH" \in EdgeTypes(c) /\ c.competition_strength # 0)
                => BoostOf(r) = 15 * c.competition_strength

\* C5 amended: with a COMPETES_WITH edge and a non-zero strength s the boost
\* is 0.15 * s when the candidate has no DISRUPTS edge and the larger of
\* 0.15 * s and 0.10 when it has one; without a COMPETES_WITH edge a DISRUPTS
\* edge gives 0.10; TARGETS_SAME_SEGMENT gives 0.05 only when neither a
\* COMPETES_WITH nor a DISRUPTS edge is present.
C5_BoostIsMaximum ==
    \A r \in Results :
        LET c  == CandOf(r.company_id)
            et == EdgeTypes(c)
            s  == c.competition_strength
        IN  /\ ("COMPETES_WITH" \in et /\ s # 0 /\ "DISRUPTS" \notin et)
                    => BoostOf(r) = 15 * s
            /\ ("COMPETES_WITH" \in et /\ s # 0 /\ "DISRUPTS" \in et)
                    => BoostOf(r) = Max2(15 * s, 1000)
            /\ ("COMPETES_WITH" \notin et /\ "DISRUPTS" \in et)
                    => BoostOf(r) = 1000
            /\ BoostOf(r) = 500
                    => ("TARGETS_SAME_SEGMENT" \in et /\ "COMPETES_WITH" \notin et
                        /\ "DISRUPTS" \notin et)

\* A ranked candidate holding both a COMPETES_WITH edge of strength 0.5 and a
\* DISRUPTS edge.
C5_Witness ==
    \E r \in Results :
        LET c == CandOf(r.company_id) IN
        /\ {"COMPETES_WITH", "DISRUPTS"} \subseteq EdgeTypes(c)
        /\ c.competition_strength = 50
        /\ BoostOf(r) = 1000

\* Every attribute of persona p's weight map is absent on candidate c: the
\* raw field is None, or, for a graph-derived field, still at its default 0.
AllWeightedAbsent(c, p) ==
    \A k \in 1..Len(PERSONAS[p].weights) :
        LET a == PERSONAS[p].weights[k][1]
            f == ATTRIBUTE_SOURCE_MAP[a][2]
        IN  IF f \in GraphFields THEN c[f] = 0 ELSE c[f] = None

\* Every candidate of the list has the same value of each graph-derived
\* field that persona p weighs.
GraphAttrsShared(p) ==
    \A k \in 1..Len(PERSONAS[p].weights) :
        LET f == ATTRIBUTE_SOURCE_MAP[PERSONAS[p].weights[k][1]][2] IN
        f \in GraphFields =>
            \A i, j \in 1..Len(candidates) : candidates[i][f] = candidates[j][f]

\* C6 as stated: for every persona, a candidate with every weighted attribute
\* absent and no graph boost scores exactly 0.5, whatever the other candidates.
C6_AbsentScoresHalf ==
    \A r \in Results :
        LET c == CandOf(r.company_id)
        IN  (AllWeightedAbsent(c, persona) /\ BoostOf(r) = 0)
                => r.composite_score = 5000

\* C6 amended: such a candidate scores 0.4 under value_investor (an absent
\* free cash flow scores 0.0, not 0.5) and 0.5 under the other four personas,
\* provided that for strategic_acquirer and enterprise_buyer every candidate
\* of the list has the same value of the graph-derived attributes (they are
\* never absent, and a zero span is what yields 0.5).
C6_AbsentBaseline ==
    \A r \in Results :
        LET c == CandOf(r.company_id)
        IN  (AllWeightedAbsent(c, persona) /\ BoostOf(r) = 0 /\ GraphAttrsShared(persona))
                => r.composite_score =
                      (IF persona = "value_investor" THEN 4000 ELSE 5000)

\* An all-absent, unboosted candidate ranked under value_investor beside a
\* candidate that has attribute values.
C6_Witness ==
    /\ persona = "value_investor"
    /\ Len(candidates) >= 2
    /\ \E r \in Results :
          /\ AllWeightedAbsent(CandOf(r.company_id), persona)
          /\ BoostOf(r) = 0
          /\ r.composite_score = 4000
    /\ \E i \in 1..Len(candidates) : candidates[i].moat_durability # None

-----------------------------------------------------------------------------
(* query_parser.py *)
(*                                                                         *)
(* Text.  A text is a sequence of symbols.  A one-character string is that *)
(* character; a longer string is a keyword phrase of the parser's patterns *)
(* taken as one symbol together with the whitespace around it ("vs" stands *)
(* for the alternation vs|vs.|versus with its \s+ on both sides).  The     *)
(* regular expressions are matched over symbols: "." matches any symbol,   *)
(* (.+?) is the shortest non-empty run that lets the rest match, and       *)
(* re.search takes the leftmost start.  Company identifiers are texts too, *)
(* because _build_lookup enters every company_id as a key.                 *)
(***************************************************************************)

\* str.lower() on one symbol (keyword phrases are kept in lower case).
LowerSym(c) == IF c = "S" THEN "s" ELSE IF c = "N" THEN "n" ELSE c
Lower(t) == [i \in 1..Len(t) |-> LowerSym(t[i])]

\* str.strip(): leading and trailing whitespace removed.
RECURSIVE LStrip(_), RStrip(_)
LStrip(t) == IF t # <<>> /\ t[1] = " " THEN LStrip(Tail(t)) ELSE t
RStrip(t) == IF t # <<>> /\ t[Len(t)] = " " THEN RStrip(SubSeq(t, 1, Len(t) - 1)) ELSE t
Strip(t) == RStrip(LStrip(t))

\* str.rstrip("."): every trailing "." removed.
RECURSIVE RStripDot(_)
RStripDot(t) == IF t # <<>> /\ t[Len(t)] = "." THEN RStripDot(SubSeq(t, 1, Len(t) - 1)) ELSE t

\* "a in t" for strings, and str.find: the first index where a occurs in t.
OccursAt(a, t, i) == i + Len(a) - 1 <= Len(t) /\ SubSeq(t, i, i + Len(a) - 1) = a
Occurs(a, t) == \E i \in 1..Len(t) + 1 : OccursAt(a, t, i)
FirstIndex(a, t) == CHOOSE i \in 1..Len(t) + 1 :
                        OccursAt(a, t, i) /\ \A j \in 1..i - 1 : ~OccursAt(a, t, j)

\* t.replace(a, rep, 1): the first occurrence of a replaced by rep.
ReplaceFirst(t, a, rep) ==
    IF ~Occurs(a, t) THEN t
    ELSE LET i == FirstIndex(a, t)
         IN  SubSeq(t, 1, i - 1) \o rep \o SubSeq(t, i + Len(a), Len(t))

\* Company identifiers and names, as texts.
snowflake == <<"s", "n", "o", "w", "f", "l", "a", "k", "e">>
c3ai      == <<"c", "3", "a", "i">>
dbt_labs  == <<"d", "b", "t", "_", "l", "a", "b", "s">>
neon      == <<"n", "e", "o", "n">>
redshift  == <<"r", "e", "d", "s", "h", "i", "f", "t">>

\* _ALIASES, the entries for five of the companies, in the order of the dict
\* literal: <<alias, company_id>>.
ALIASES ==
    << <<<<"s", "n", "o", "w">>, snowflake>>,
       <<<<"s", "n", "o", "w", "f", "l", "a", "k", "e">>, snowflake>>,
       <<<<"c", "3", " ", "a", "i">>, c3ai>>,
       <<<<"c", "3", "a", "i">>, c3ai>>,
       <<<<"c", "3">>, c3ai>>,
       <<<<"d", "b", "t">>, dbt_labs>>,
       <<<<"n", "e", "o", "n">>, neon>>,
       <<<<"a", "w", "s">>, redshift>> >>

\* data["companies"] of companies.json: one catalog entry, whose name carries
\* a suffix and a final period.
Companies == << [company_id |-> neon, name |-> <<"N", "e", "o", "n", " ", "i", "n", "c", ".">>] >>

\* d[k] = v on a dict kept as a list of <<key, value>> in insertion order.
DictSet(dict, k, v) ==
    IF \E i \in 1..Len(dict) : dict[i][1] = k
    THEN [i \in 1..Len(dict) |-> IF dict[i][1] = k THEN <<k, v>> ELSE dict[i]]
    ELSE Append(dict, <<k, v>>)

DictHas(dict, k) == \E i \in 1..Len(dict) : dict[i][1] = k
DictGet(dict, k) == dict[CHOOSE i \in 1..Len(dict) : dict[i][1] = k][2]

EndsWith(t, suffix) ==
    Len(suffix) <= Len(t) /\ SubSeq(t, Len(t) - Len(suffix) + 1, Len(t)) = suffix

Suffixes == <<<<" ", "i", "n", "c">>, <<" ", "c", "o", "r", "p", "o", "r", "a", "t", "i", "o", "n">>, <<" ", "t", "e", "c", "h", "n", "o", "l", "o", "g", "i", "e", "s">>>>

\* The suffix loop of _build_lookup for one company.
RECURSIVE AddStripped(_, _, _, _)
AddStripped(lookup, name_lower, cid, suffixes) ==
    IF suffixes = <<>> THEN lookup
    ELSE LET suffix == suffixes[1]
             next   == IF EndsWith(name_lower, suffix)
                       THEN DictSet(lookup,
                                    Strip(SubSeq(name_lower, 1, Len(name_lower) - Len(suffix))),
                                    cid)
                       ELSE lookup
         IN  AddStripped(next, name_lower, cid, Tail(suffixes))

\* The loop of _build_lookup over the catalog.
RECURSIVE AddCompanies(_, _)
AddCompanies(lookup, companies) ==
    IF companies = <<>> THEN lookup
    ELSE LET c          == companies[1]
             cid        == c.company_id
             name_lower == RStripDot(Strip(Lower(c.name)))
             l1         == DictSet(lookup, name_lower, cid)
             l2         == DictSet(l1, cid, cid)
         IN  AddCompanies(AddStripped(l2, name_lower, cid, Suffixes), Tail(companies))

\* _build_lookup(): the aliases, then the catalog names, ids and stripped names.
_build_lookup == AddCompanies(ALIASES, Companies)

\* The loop of resolve_company over lookup.items().
RECURSIVE LongestMatch(_, _, _, _)
LongestMatch(items, key, best_match, best_len) ==
    IF items = <<>> THEN best_match
    ELSE LET alias == items[1][1]
             cid   == items[1][2]
         IN  IF Len(alias) > best_len /\ Occurs(alias, key)
             THEN LongestMatch(Tail(items), key, Some(cid), Len(alias))
             ELSE LongestMatch(Tail(items), key, best_match, best_len)

\* resolve_company taking the first key of the table that occurs in the input
\* instead of the longest.
resolve_company_first_match(name) ==
    LET lookup == _build_lookup
        key    == RStripDot(Strip(Lower(name)))
        hits   == {i \in 1..Len(lookup) : Occurs(lookup[i][1], key)}
    IN  IF DictHas(lookup, key) THEN Some(DictGet(lookup, key))
        ELSE IF hits = {} THEN None
        ELSE Some(lookup[CHOOSE i \in hits : \A j \in hits : i <= j][2])

\* resolve_company(name): Some(company_id), or None when nothing matches.
resolve_company(name) ==
    LET lookup == _build_lookup
        key    == RStripDot(Strip(Lower(name)))
    IN  IF DictHas(lookup, key) THEN Some(DictGet(lookup, key))
        ELSE LongestMatch(lookup, key, None, 0)

\* "if target:" on a resolve_company result.
Truthy(r) == r # None /\ r[1] # <<>>

\* _PERSONA_PATTERNS in dict order: <<persona, symbols the pattern matches>>.
\* The acquisition phrases contain "acquis" / "acquir", which acqui[rs] matches.
PERSONA_PATTERNS ==
    << <<"value_investor", {"value invest"}>>,
       <<"pe_firm", {"pe", "private equity"}>>,
       <<"growth_vc", {"vc", "venture capital", "growth"}>>,
       <<"strategic_acquirer", {"strategic", "acquirer", "acquisition target for",
                                "should acquire to compete with", "best acquisition for"}>>,
       <<"enterprise_buyer", {"enterprise buyer", "buyer"}>> >>

\* The "<word> lens" branch of _detect_persona: words the primary patterns do
\* not catch, as <<symbol, persona>>.
LENS_WORDS ==
    << <<"private lens", "pe_firm">>,
       <<"venture lens", "growth_vc">>,
       <<"value lens", "value_investor">>,
       <<"enterprise lens", "enterprise_buyer">> >>

HasSym(q, syms) == \E i \in 1..Len(q) : q[i] \in syms

\* _detect_persona(query): Some(persona) or None.
_detect_persona(query) ==
    LET q == Lower(query)
        hits == {k \in 1..Len(PERSONA_PATTERNS) : HasSym(q, PERSONA_PATTERNS[k][2])}
        lens == {k \in 1..Len(LENS_WORDS) : HasSym(q, {LENS_WORDS[k][1]})}
    IN  IF hits # {}
        THEN Some(PERSONA_PATTERNS[CHOOSE k \in hits : \A j \in hits : k <= j][1])
        ELSE IF lens # {}
        THEN Some(LENS_WORDS[CHOOSE k \in lens :
                     \A j \in lens :
                        (CHOOSE i \in 1..Len(q) : q[i] = LENS_WORDS[k][1] /\
                            \A h \in 1..i - 1 : q[h] # LENS_WORDS[k][1])
                        <= (CHOOSE i \in 1..Len(q) : q[i] = LENS_WORDS[j][1] /\
                            \A h \in 1..i - 1 : q[h] # LENS_WORDS[j][1])][2])
        ELSE None

\* _ATTRIBUTE_MAP, six of its entries in dict order:
\* <<phrase, attribute, len(phrase), symbols whose text contains the phrase>>.
ATTRIBUTE_MAP ==
    << <<"moat", "moat_durability", 4, {"moat", "moat durability"}>>,
       <<"moat durability", "moat_durability", 15, {"moat durability"}>>,
       <<"revenue predictability", "revenue_predictability", 22, {"revenue predictability"}>>,
       <<"margin", "operating_margin", 6, {"margin"}>>,
       <<"growth", "yoy_employee_growth", 6, {"growth"}>>,
       <<"revenue", "revenue_ttm_b", 7, {"revenue", "revenue predictability"}>> >>

\* sorted(keys, key=len, reverse=True) is stable: position k comes before
\* position j when it is longer, or as long and earlier in the dict.
Before(len_k, k, len_j, j) == len_k > len_j \/ (len_k = len_j /\ k < j)

\* _detect_attribute(query): the attribute of the first phrase, longest
\* first, that occurs in the text; None when none occurs.
_detect_attribute(query) ==
    LET q == Lower(query)
        hits == {k \in 1..Len(ATTRIBUTE_MAP) : HasSym(q, ATTRIBUTE_MAP[k][4])}
    IN  IF hits = {} THEN None
        ELSE Some(ATTRIBUTE_MAP[CHOOSE k \in hits : \A j \in hits \ {k} :
                     Before(ATTRIBUTE_MAP[k][3], k, ATTRIBUTE_MAP[j][3], j)][2])

\* sorted(lookup, key=len, reverse=True): the keys, longest first, ties in
\* dict order.
RECURSIVE InsertByLen(_, _)
InsertByLen(sorted, alias) ==
    IF sorted = <<>> THEN <<alias>>
    ELSE IF Len(sorted[Len(sorted)]) >= Len(alias) THEN Append(sorted, alias)
    ELSE Append(InsertByLen(SubSeq(sorted, 1, Len(sorted) - 1), alias), sorted[Len(sorted)])

RECURSIVE SortedByLen(_)
SortedByLen(keys) ==
    IF keys = <<>> THEN <<>>
    ELSE InsertByLen(SortedByLen(SubSeq(keys, 1, Len(keys) - 1)), keys[Len(keys)])

\* The test of the loop taking aliases of any length.
AliasMatchesAnyLength(alias, q) == Occurs(alias, q)

\* The test of the loop of _extract_companies_from_query: the alias occurs in
\* what is left of the text and has more than two characters.
AliasMatches(alias, q) == Occurs(alias, q) /\ Len(alias) > 2

\* The loop of _extract_companies_from_query over the sorted aliases.
RECURSIVE ExtractLoop(_, _, _, _)
ExtractLoop(aliases, lookup, found, q) ==
    IF aliases = <<>> THEN found
    ELSE LET alias == aliases[1] IN
         IF AliasMatches(alias, q)
         THEN LET cid == DictGet(lookup, alias) IN
              IF \A i \in 1..Len(found) : found[i] # cid
              THEN ExtractLoop(Tail(aliases), lookup, Append(found, cid),
                               ReplaceFirst(q, alias, <<" ">>))
              ELSE ExtractLoop(Tail(aliases), lookup, found, q)
         ELSE ExtractLoop(Tail(aliases), lookup, found, q)

\* _extract_companies_from_query(query): the list of company ids found.
_extract_companies_from_query(query) ==
    LET lookup == _build_lookup
        keys   == [i \in 1..Len(lookup) |-> lookup[i][1]]
    IN  ExtractLoop(SortedByLen(keys), lookup, <<>>, Lower(query))

\* --- the regular expressions of parse_query, over symbols ---

\* The tail (?:\s+through|\s+from|\s+in\s+a|\s*$) matches at position j:
\* whitespace, then a terminator phrase or the end of the text.
TermSyms == {"through"}
TermAt(q, j) ==
    \E k \in j..Len(q) + 1 :
        /\ \A h \in j..k - 1 : q[h] = " "
        /\ (k = Len(q) + 1 \/ q[k] \in TermSyms)

\* The end of a lazy group (.+?) that starts at i and is followed by the tail.
LazyEnd(q, i) == CHOOSE e \in i..Len(q) :
                    TermAt(q, e + 1) /\ \A d \in i..e - 1 : ~TermAt(q, d + 1)

MinOf(S) == CHOOSE x \in S : \A y \in S : x <= y

\* comp_patterns: the head phrase of each pattern, in list order.
\* head \s+ (.+?) tail.
comp_patterns == <<"competitors to", "who competes with", "competition to", "rivals to">>

\* re.search of one comp pattern: Some(<<group 1>>) or None.
CompSearch(q, head) ==
    LET P == {p \in 1..Len(q) - 1 : q[p] = head} IN
    IF P = {} THEN None
    ELSE Some(<<SubSeq(q, MinOf(P) + 1, LazyEnd(q, MinOf(P) + 1))>>)

\* cmp_patterns: <<head phrase ("" for none), separator symbols, phrases that
\* end in a separator word>>.
\* [head \s+] (.+?) \s+ separator \s+ (.+?) tail.
WithTail == {"to compete with", "should acquire to compete with", "who competes with"}
cmp_patterns == << <<"compare", {"vs", "and"}, WithTail>>, <<"", {"vs"}, {}>> >>

\* The ends e of a first group starting at i that a separator follows, leaving
\* a non-empty group on each side: the separator is the symbol after e, or the
\* last word of the phrase at e, whose earlier words then belong to the group.
CmpEnds(q, i, pat) ==
    {e \in i..Len(q) - 2 : q[e + 1] \in pat[2]} \cup
    {e \in i..Len(q) - 1 : q[e] \in pat[3]}

\* The first symbol of the second group, for a first group ending at e.
CmpRest(q, e, pat) == IF q[e] \in pat[3] THEN e + 1 ELSE e + 2

\* re.search of one cmp pattern: Some(<<group 1, group 2>>) or None.
CmpSearch(q, pat) ==
    LET head   == pat[1]
        starts == IF head = "" THEN {1}
                  ELSE {p + 1 : p \in {p \in 1..Len(q) : q[p] = head}}
        ok     == {i \in starts : CmpEnds(q, i, pat) # {}}
    IN  IF ok = {} THEN None
        ELSE LET i == MinOf(ok)
                 e == MinOf(CmpEnds(q, i, pat))
                 r == CmpRest(q, e, pat)
             IN  Some(<<SubSeq(q, i, e), SubSeq(q, r, LazyEnd(q, r))>>)

\* The positions k of a middle phrase that leave a non-empty group on each
\* side, for a first group starting at i.
SepAfter(q, i, seps) == {k \in i + 1..Len(q) - 1 : q[k] \in seps}

\* acq_patterns 1 and 3: <<head phrase ("" for none), middle phrase>>.
\* [head \s+] (.+?) \s+ middle \s+ (.+?) \s*$.
acq_patterns == << <<"acquisition target for", {"to compete with"}>>,
                   <<"", {"should acquire to compete with"}>> >>

\* re.search of acq pattern 1 or 3: both groups, the second up to the end.
AcqSearch(q, pat) ==
    LET head   == pat[1]
        starts == IF head = "" THEN {1}
                  ELSE {p + 1 : p \in {p \in 1..Len(q) : q[p] = head}}
        ok     == {i \in starts : SepAfter(q, i, pat[2]) # {}}
    IN  IF ok = {} THEN None
        ELSE LET i == MinOf(ok)
                 k == MinOf(SepAfter(q, i, pat[2]))
             IN  Some(<<SubSeq(q, i, k - 1), SubSeq(q, k + 1, Len(q))>>)

\* acq pattern 2:
\*   (?:what|which|best)\s+.*?acqui\w+\s+.*?for\s+(.+?)\s+.*?(?:against|compete|rival)\s+.*?(.+?)\s*$
\* The head up to "for" is the phrase "best acquisition for", or the phrase
\* "acquisition target for" with a what/which/best symbol somewhere before it.
\* Group 1 is the shortest run that is followed by whitespace (a space or a
\* keyword phrase) with an against/compete/rival phrase at or after it; group
\* 2 is what follows that phrase, up to the end.
WhichSyms   == {"which", "best"}
AgainstSyms == {"against", "to compete with", "should acquire to compete with",
                "who competes with", "rivals to"}
WsLed(sym) == sym = " " \/ Len(sym) > 1

Acq2Heads(q) ==
    {f \in 1..Len(q) :
        \/ q[f] = "best acquisition for"
        \/ (q[f] = "acquisition target for" /\ \E p \in 1..f - 1 : q[p] \in WhichSyms)}

Acq2Against(q, e) == {r \in e + 1..Len(q) - 1 : q[r] \in AgainstSyms}
Acq2Ends(q, f) ==
    {e \in f + 1..Len(q) - 1 : WsLed(q[e + 1]) /\ Acq2Against(q, e) # {}}

Acq2Search(q) ==
    LET ok == {f \in Acq2Heads(q) : Acq2Ends(q, f) # {}} IN
    IF ok = {} THEN None
    ELSE LET f == MinOf(ok)
             e == MinOf(Acq2Ends(q, f))
             r == MinOf(Acq2Against(q, e))
         IN  Some(<<SubSeq(q, f + 1, e), SubSeq(q, r + 1, Len(q))>>)

\* The keywords of the attribute_search check, as the symbols containing one.
AttrKeywordSyms == {"which", "best", "strongest", "highest", "top", "most", "leading",
                    "best acquisition for"}

Intents == {"competitors_to", "compare", "acquisition_target", "attribute_search"}

\* ParsedQuery(...) with the attribute field defaulting to "moat_durability".
ParsedQueryDefaultAttribute(query_type, raw_query, target_company, compare_company, acquirer, p, attribute) ==
    [ query_type      |-> query_type,
      raw_query       |-> raw_query,
      target_company  |-> target_company,
      compare_company |-> compare_company,
      acquirer        |-> acquirer,
      persona         |-> p,
      attribute       |-> IF attribute = None THEN Some("moat_durability") ELSE attribute ]

\* ParsedQuery(...) with the dataclass defaults for the fields not given.
ParsedQuery(query_type, raw_query, target_company, compare_company, acquirer, p, attribute) ==
    [ query_type      |-> query_type,
      raw_query       |-> raw_query,
      target_company  |-> target_company,
      compare_company |-> compare_company,
      acquirer        |-> acquirer,
      persona         |-> p,
      attribute       |-> attribute ]

\* The first pattern of a list whose search matches and whose groups all
\* resolve: Some(<<resolved ids>>), else None.  (for pat in patterns: ...)
RECURSIVE FirstResolved(_)
FirstResolved(matches) ==
    IF matches = <<>> THEN None
    ELSE LET m == matches[1] IN
         IF m # None /\ \A g \in 1..Len(m[1]) : Truthy(resolve_company(Strip(m[1][g])))
         THEN Some([g \in 1..Len(m[1]) |-> resolve_company(Strip(m[1][g]))[1]])
         ELSE FirstResolved(Tail(matches))

CompMatches(q) == [k \in 1..Len(comp_patterns) |-> CompSearch(q, comp_patterns[k])]
CmpMatches(q)  == [k \in 1..Len(cmp_patterns) |-> CmpSearch(q, cmp_patterns[k])]
AcqMatches(q)  == <<AcqSearch(q, acq_patterns[1]), Acq2Search(q), AcqSearch(q, acq_patterns[2])>>

\* The order of the intent checks of parse_query, tried compare first.
AcceptedRungCompareFirst(comp, cmp, acq, attr_kw) ==
    IF cmp # None THEN "cmp_pattern"
    ELSE IF comp # None THEN "comp_pattern"
    ELSE IF acq # None THEN "acq_pattern"
    ELSE IF attr_kw THEN "attr_keyword"
    ELSE "fallback"

\* The order of the intent checks of parse_query: the first check that is
\* accepted, "fallback" when none is.
AcceptedRung(comp, cmp, acq, attr_kw) ==
    IF comp # None THEN "comp_pattern"
    ELSE IF cmp # None THEN "cmp_pattern"
    ELSE IF acq # None THEN "acq_pattern"
    ELSE IF attr_kw THEN "attr_keyword"
    ELSE "fallback"

\* The last return of parse_query giving no result at all.
LastResortRejects(query, p) ==
    ParsedQuery("", query, <<>>, <<>>, <<>>, p, None)

\* The last return of parse_query.
LastResort(query, p) ==
    ParsedQuery("attribute_search", query, <<>>, <<>>, <<>>, p, Some("moat_durability"))

\* parse_query(query): the ParsedQuery returned, with the return statement
\* that produced it (rung).
ParseOutcome(query) ==
    LET q       == Strip(Lower(query))
        p       == _detect_persona(query)
        comp    == FirstResolved(CompMatches(q))
        cmp     == FirstResolved(CmpMatches(q))
        acq     == FirstResolved(AcqMatches(q))
        attr    == _detect_attribute(query)
        companies == _extract_companies_from_query(query)
        accepted == AcceptedRung(comp, cmp, acq, attr # None /\ HasSym(q, AttrKeywordSyms))
    IN  IF accepted = "comp_pattern"
        THEN [rung |-> "comp_pattern",
              parsed |-> ParsedQuery("competitors_to", query, comp[1][1], <<>>, <<>>, p, None)]
        ELSE IF accepted = "cmp_pattern"
        THEN [rung |-> "cmp_pattern",
              parsed |-> ParsedQuery("compare", query, cmp[1][1], cmp[1][2], <<>>, p, None)]
        ELSE IF accepted = "acq_pattern"
        THEN [rung |-> "acq_pattern",
              parsed |-> ParsedQuery("acquisition_target", query, acq[1][2], <<>>, acq[1][1],
                                     IF p # None THEN p ELSE Some("strategic_acquirer"), None)]
        ELSE IF accepted = "attr_keyword"
        THEN [rung |-> "attr_keyword",
              parsed |-> ParsedQuery("attribute_search", query, <<>>, <<>>, <<>>, p, attr)]
        ELSE IF Len(companies) >= 2
        THEN [rung |-> "fallback_compare",
              parsed |-> ParsedQuery("compare", query, companies[1], companies[2], <<>>, p, None)]
        ELSE IF Len(companies) = 1
        THEN [rung |-> "fallback_single",
              parsed |-> ParsedQuery("competitors_to", query, companies[1], <<>>, <<>>, p, None)]
        ELSE IF attr # None
        THEN [rung |-> "fallback_attr",
              parsed |-> ParsedQuery("attribute_search", query, <<>>, <<>>, <<>>, p, attr)]
        ELSE [rung |-> "last_resort", parsed |-> LastResort(query, p)]

parse_query(query) == ParseOutcome(query).parsed

-----------------------------------------------------------------------------
(* SpecParse: parse_query and resolve_company called on one drawn text *)

\* The segments a drawn text is put together from: keyword phrases at the odd
\* places, names at the even places, either possibly left out.
KeywordSegs ==
    { <<>>, <<"competitors to">>, <<"compare">>, <<"vs">>, <<"through">>,
      <<"acquisition target for">>, <<"to compete with">>, <<"against">>,
      <<"which">>, <<"moat">> }

\* The names, the first MaxNames of which a text may use: two catalog
\* companies, a spelling that needs normalising, an alias of two characters,
\* a name the tables do not know, and further aliases.
Names ==
    << snowflake, neon, <<" ", "S", "n", "o", "w", ".">>, <<"c", "3">>, <<"x", "y", "z">>,
       <<"d", "b", "t">>, <<"c", "3", " ", "a", "i">>, <<"a", "w", "s">> >>

NameSegs == {<<>>} \cup {Names[i] : i \in 1..Min2(MaxNames, Len(Names))}

\* A text: keyword phrase, name, keyword phrase, name.
TextSegs == 4

RECURSIVE Texts(_)
Texts(n) ==
    IF n = 0 THEN {<<>>}
    ELSE {t \o seg : t \in Texts(n - 1),
                     seg \in IF n % 2 = 1 THEN KeywordSegs ELSE NameSegs}

InitParse ==
    /\ query_text \in Texts(TextSegs)
    /\ parsed = None /\ rung = "" /\ resolved = None
    /\ candidates = <<>> /\ persona = "value_investor" /\ ranked = None /\ earlier = None
    /\ graph = <<>> /\ center = "" /\ retrieved = None
    /\ acquirer_id = "" /\ acquired = None
    /\ caller_persona = "" /\ fail_at = 0 /\ gathered = <<>> /\ outcome = None
    /\ next_node = "" /\ executed = <<>> /\ agent_state = <<>>
    /\ company_lookup = None /\ callers = <<>> /\ catalog_reads = 0

\* One call parse_query(query_text).
ParseQuery ==
    /\ parsed = None
    /\ parsed' = Some(ParseOutcome(query_text).parsed)
    /\ rung' = ParseOutcome(query_text).rung
    /\ UNCHANGED <<query_text, resolved, rankVars, graphVars, searchVars, agentVars, lookupVars>>

\* One call resolve_company(query_text).
ResolveCompany ==
    /\ resolved = None
    /\ resolved' = Some(resolve_company(query_text))
    /\ UNCHANGED <<query_text, parsed, rung, rankVars, graphVars, searchVars, agentVars, lookupVars>>

NextParse == ParseQuery \/ ResolveCompany

SpecParse == InitParse /\ [][NextParse]_vars

-----------------------------------------------------------------------------
(* Properties of parse_query and resolve_company, checked under SpecParse *)

Parsed == parsed[1]

\* The rungs after the four intent checks.
FallbackRungs == {"fallback_compare", "fallback_single", "fallback_attr", "last_resort"}

\* The table keys that occur in a text, as positions of _build_lookup.
KeysIn(t) == {i \in 1..Len(_build_lookup) : Occurs(_build_lookup[i][1], t)}
KeyOf(i) == _build_lookup[i][1]
IdOf(i)  == _build_lookup[i][2]

\* The companies a text mentions, and where each is mentioned first.
Mentioned(t) == {IdOf(i) : i \in KeysIn(t)}
FirstPos(c, t) == MinOf({FirstIndex(KeyOf(i), t) : i \in {k \in KeysIn(t) : IdOf(k) = c}})

\* The keys of more than two characters that occur in a text, and their
\* companies.
LongKeysIn(t) == {i \in KeysIn(t) : Len(KeyOf(i)) > 2}
Found(t) == {IdOf(i) : i \in LongKeysIn(t)}

Resolving(m) == m # None /\ \A g \in 1..Len(m[1]) : resolve_company(Strip(m[1][g])) # None
SomeResolves(matches) == \E k \in 1..Len(matches) : Resolving(matches[k])
SomeMatches(matches)  == \E k \in 1..Len(matches) : matches[k] # None

\* C8: parse_query returns from the first of the checks competitors_to,
\* compare, acquisition_target, attribute_search that is accepted, a pattern
\* check being accepted exactly when one of its patterns matches with every
\* captured reference resolving; a pattern that matches without resolving
\* gives no result of its own and the later checks are still made.
C8_FirstAcceptedIntent ==
    parsed # None =>
        LET q       == Strip(Lower(query_text))
            comp_ok == SomeResolves(CompMatches(q))
            cmp_ok  == SomeResolves(CmpMatches(q))
            acq_ok  == SomeResolves(AcqMatches(q))
            attr_ok == _detect_attribute(query_text) # None /\ HasSym(q, AttrKeywordSyms)
        IN  /\ rung = "comp_pattern" <=> comp_ok
            /\ rung = "cmp_pattern"  <=> (~comp_ok /\ cmp_ok)
            /\ rung = "acq_pattern"  <=> (~comp_ok /\ ~cmp_ok /\ acq_ok)
            /\ rung = "attr_keyword" <=> (~comp_ok /\ ~cmp_ok /\ ~acq_ok /\ attr_ok)
            /\ rung \in FallbackRungs <=> (~comp_ok /\ ~cmp_ok /\ ~acq_ok /\ ~attr_ok)
            /\ rung = "comp_pattern" => Parsed.query_type = "competitors_to"
            /\ rung = "cmp_pattern"  => Parsed.query_type = "compare"
            /\ rung = "acq_pattern"  => Parsed.query_type = "acquisition_target"
            /\ rung = "attr_keyword" => Parsed.query_type = "attribute_search"

\* A competitors_to pattern matched, its reference did not resolve, and a later
\* check gave the result; and a text two pattern checks accept.
C8_Witness ==
    /\ parsed # None
    /\ \/ /\ SomeMatches(CompMatches(Strip(Lower(query_text))))
          /\ ~SomeResolves(CompMatches(Strip(Lower(query_text))))
          /\ rung = "cmp_pattern"
       \/ /\ SomeResolves(CompMatches(Strip(Lower(query_text))))
          /\ SomeResolves(CmpMatches(Strip(Lower(query_text))))
          /\ rung = "comp_pattern"

\* C9: on every text parse_query has a result, before the call and after it a
\* ParsedQuery whose query_type is one of the four intents; the last return
\* gives attribute_search with the attribute moat_durability.
C9_ParseTotal ==
    /\ parsed = None => parse_query(query_text).query_type \in Intents
    /\ parsed # None =>
          /\ Parsed.query_type \in Intents
          /\ rung = "last_resort" =>
                /\ Parsed.query_type = "attribute_search"
                /\ Parsed.attribute = Some("moat_durability")

\* A call that ended at the last return, on a text that is not empty.
C9_Witness ==
    /\ parsed # None
    /\ rung = "last_resort"
    /\ query_text # <<>>

\* C10: resolve_company returns the id of the table key equal to the
\* normalised input when there is one; otherwise the id of a longest table key
\* occurring in the normalised input; and None only when no key occurs in it.
C10_ExactThenLongestKey ==
    resolved # None =>
        LET key  == RStripDot(Strip(Lower(query_text)))
            hits == KeysIn(key)
            r    == resolved[1]
        IN  /\ DictHas(_build_lookup, key) => r = Some(DictGet(_build_lookup, key))
            /\ ~DictHas(_build_lookup, key) /\ hits # {} =>
                 \E i \in hits : /\ r = Some(IdOf(i))
                                 /\ \A j \in hits : Len(KeyOf(j)) <= Len(KeyOf(i))
            /\ r = None <=> hits = {}

\* A resolution by substring where a shorter key of another company occurs
\* too, and earlier in the table.
C10_Witness ==
    /\ resolved # None /\ resolved[1] # None
    /\ ~DictHas(_build_lookup, RStripDot(Strip(Lower(query_text))))
    /\ \E i, j \in KeysIn(RStripDot(Strip(Lower(query_text)))) :
          /\ i < j
          /\ Len(KeyOf(i)) < Len(KeyOf(j))
          /\ IdOf(i) # IdOf(j)
          /\ resolved[1] = Some(IdOf(j))

-----------------------------------------------------------------------------
(* graph_traversal.py: get_competitors_to *)
(*                                                                         *)
(* The graph store is a record: graph.competes and graph.disrupts are sets *)
(* of relationships [from, to, strength], the strength an Option since a   *)
(* relationship may lack the property; graph.segment and graph.theme are   *)
(* sets of <<company, segment>> and <<company, theme>> memberships;        *)
(* graph.partners is a set of relationships [from, to]; graph.attrs gives  *)
(* the properties of each Company node.  Neo4j fixes no order for the      *)
(* records of a query: the model returns them in node order.               *)

NodeSeq    == SubSeq(CompanyIds, 1, Min2(MaxNodes, Len(CompanyIds)))
Nodes      == {NodeSeq[i] : i \in 1..Len(NodeSeq)}
SegmentSeq == <<"s1", "s2">>

RECURSIVE Concat(_)
Concat(ss) == IF ss = <<>> THEN <<>> ELSE ss[1] \o Concat(Tail(ss))

RECURSIVE SeqOf(_)
SeqOf(S) == IF S = {} THEN <<>>
            ELSE LET x == CHOOSE y \in S : TRUE IN <<x>> \o SeqOf(S \ {x})

\* _record_to_candidate(record, edges): the node's properties, the edges, and
\* the dataclass defaults for the graph-derived fields.
_record_to_candidate(g, t, edges) ==
    [graph_edges |-> edges] @@ g.attrs[t] @@ CandidateCompany(t)

\* "cid in candidates" and candidates[cid] on the dict, kept as a list in
\* insertion order.
HasCandidate(cands, cid) == \E i \in 1..Len(cands) : cands[i].company_id = cid
IndexOfCandidate(cands, cid) == CHOOSE i \in 1..Len(cands) : cands[i].company_id = cid

\* candidates[cand.company_id] = cand
PutCandidate(cands, cand) ==
    IF HasCandidate(cands, cand.company_id)
    THEN [cands EXCEPT ![IndexOfCandidate(cands, cand.company_id)] = cand]
    ELSE Append(cands, cand)

\* The if / else of strategies 2 to 4 putting a new record in place of the
\* candidate there is.
MergeEdgeReplacing(g, cands, cid, edge) ==
    PutCandidate(cands, _record_to_candidate(g, cid, <<edge>>))

\* The if / else of strategies 2 to 4: append the edge to the candidate there
\* is, or make the candidate.
MergeEdge(g, cands, cid, edge) ==
    IF HasCandidate(cands, cid)
    THEN [cands EXCEPT ![IndexOfCandidate(cands, cid)].graph_edges = Append(@, edge)]
    ELSE Append(cands, _record_to_candidate(g, cid, <<edge>>))

\* The loop of a strategy over its records <<company_id, edge>>.
RECURSIVE MergeAll(_, _, _)
MergeAll(g, cands, records) ==
    IF records = <<>> THEN cands
    ELSE MergeAll(g, MergeEdge(g, cands, records[1][1], records[1][2]), Tail(records))

\* max(r.strength): null values are skipped, null when there is no other.
MaxStrength(S) ==
    IF \A x \in S : x = None THEN None
    ELSE Some(CHOOSE m \in {x[1] : x \in S \ {None}} : \A y \in S \ {None} : y[1] <= m)

\* Query 1: (c)-[r:COMPETES_WITH]-(t), one record <<t, max strength>> per t.
CompetesStrengths(g, cid, t) ==
    {r.strength : r \in {e \in g.competes : \/ (e.from = cid /\ e.to = t)
                                             \/ (e.to = cid /\ e.from = t)}}

CompetesRecords(g, cid) ==
    Concat([i \in 1..Len(NodeSeq) |->
              IF CompetesStrengths(g, cid, NodeSeq[i]) = {} THEN <<>>
              ELSE << <<NodeSeq[i], MaxStrength(CompetesStrengths(g, cid, NodeSeq[i]))>> >>])

\* The loop of strategy 1.
RECURSIVE Strategy1(_, _, _)
Strategy1(g, cands, records) ==
    IF records = <<>> THEN cands
    ELSE LET t        == records[1][1]
             strength == records[1][2]
             cand     == [_record_to_candidate(g, t, <<Edge("COMPETES_WITH", strength)>>)
                            EXCEPT !.competition_strength =
                                       IF strength = None THEN 0 ELSE strength[1]]
         IN  Strategy1(g, PutCandidate(cands, cand), Tail(records))

\* Query 2 returning one record per t, however many segments are shared.
SegmentRecordsOnePerNode(g, cid) ==
    Concat([i \in 1..Len(NodeSeq) |->
              IF NodeSeq[i] = cid
                 \/ ~\E sg \in {x[2] : x \in g.segment} :
                        <<cid, sg>> \in g.segment /\ <<NodeSeq[i], sg>> \in g.segment
              THEN <<>>
              ELSE << <<NodeSeq[i], Edge("TARGETS_SAME_SEGMENT", "shared")>> >>])

\* Query 2: (c)-[:TARGETS_SAME_SEGMENT]->(s)<-[:TARGETS_SAME_SEGMENT]-(t),
\* t <> c: one record per shared segment.
SegmentRecords(g, cid) ==
    Concat([i \in 1..Len(NodeSeq) |->
              IF NodeSeq[i] = cid THEN <<>>
              ELSE Concat([k \in 1..Len(SegmentSeq) |->
                     IF <<cid, SegmentSeq[k]>> \in g.segment /\ <<NodeSeq[i], SegmentSeq[k]>> \in g.segment
                     THEN << <<NodeSeq[i], Edge("TARGETS_SAME_SEGMENT", SegmentSeq[k])>> >>
                     ELSE <<>>])])

\* Query 3: shared themes, one record per t with the number of them.
SharedThemes(g, cid, t) == {m[2] : m \in {x \in g.theme : x[1] = cid /\ <<t, x[2]>> \in g.theme}}

ThemeRecords(g, cid) ==
    Concat([i \in 1..Len(NodeSeq) |->
              IF NodeSeq[i] = cid \/ SharedThemes(g, cid, NodeSeq[i]) = {} THEN <<>>
              ELSE << <<NodeSeq[i], Edge("SHARES_INVESTMENT_THEME",
                                         Cardinality(SharedThemes(g, cid, NodeSeq[i])))>> >>])

\* Query 4: (c)-[r:DISRUPTS]-(t), one record per relationship, with its
\* direction as seen from c.
DisruptsRecords(g, cid) ==
    Concat([i \in 1..Len(NodeSeq) |->
              [k \in 1..Cardinality({e \in g.disrupts : e.from = cid /\ e.to = NodeSeq[i]}) |->
                  <<NodeSeq[i], Edge("DISRUPTS", "disrupts")>>]
              \o
              [k \in 1..Cardinality({e \in g.disrupts : e.to = cid /\ e.from = NodeSeq[i]
                                                          /\ e.from # cid}) |->
                  <<NodeSeq[i], Edge("DISRUPTS", "disrupted_by")>>]])

StrongTypes == {"COMPETES_WITH", "DISRUPTS", "TARGETS_SAME_SEGMENT"}

\* The filter keeping every candidate that has an edge at all.
HasAnyEdge(cand) == EdgeTypes(cand) # {}

\* has_strong_edge of the filter.
HasStrongEdge(cand) == EdgeTypes(cand) \cap StrongTypes # {}

\* _enrich_partnership_counts: the number of distinct partners, for the
\* candidates that have one.
PartnerCount(g, cid) ==
    Cardinality({t \in Nodes : \E r \in g.partners : \/ (r.from = cid /\ r.to = t)
                                                      \/ (r.to = cid /\ r.from = t)})

_enrich_partnership_counts(g, cands) ==
    [i \in 1..Len(cands) |->
        IF PartnerCount(g, cands[i].company_id) > 0
        THEN [cands[i] EXCEPT !.partnership_count = PartnerCount(g, cands[i].company_id)]
        ELSE cands[i]]

\* The candidate dict of get_competitors_to after each of its four strategies.
CompetitorsStages(g, cid) ==
    LET s1 == Strategy1(g, <<>>, CompetesRecords(g, cid))
        s2 == MergeAll(g, s1, SegmentRecords(g, cid))
        s3 == MergeAll(g, s2, ThemeRecords(g, cid))
        s4 == MergeAll(g, s3, DisruptsRecords(g, cid))
    IN  <<s1, s2, s3, s4>>

\* get_competitors_to(driver, company_id): the four strategies merged, the
\* filter, the partnership counts, list(candidates.values()).
get_competitors_to(g, cid) ==
    _enrich_partnership_counts(g, SelectSeq(CompetitorsStages(g, cid)[4], HasStrongEdge))

-----------------------------------------------------------------------------
(* graph_traversal.py: get_acquisition_targets *)

\* "r.get("strength") or 0.0"
OrZero(strength) == IF strength = None THEN 0 ELSE strength[1]

\* The records of a query without those of the company excluded by
\* "WHERE t.company_id <> $acquirer".
RECURSIVE Without(_, _)
Without(records, cid) ==
    IF records = <<>> THEN <<>>
    ELSE IF records[1][1] = cid THEN Without(Tail(records), cid)
    ELSE <<records[1]>> \o Without(Tail(records), cid)

\* The loop of strategy 1: a new record per competitor of the target, its
\* competitive_threat the strength.
RECURSIVE AcqStrategy1(_, _, _)
AcqStrategy1(g, cands, records) ==
    IF records = <<>> THEN cands
    ELSE LET t        == records[1][1]
             strength == records[1][2]
             cand     == [_record_to_candidate(g, t, <<Edge("COMPETES_WITH", strength)>>)
                            EXCEPT !.competitive_threat = OrZero(strength)]
         IN  AcqStrategy1(g, PutCandidate(cands, cand), Tail(records))

\* Query 2: (target)<-[r:DISRUPTS]-(t), one record <<t, strength>> per
\* relationship.
DisruptorRecords(g, target) ==
    Concat([i \in 1..Len(NodeSeq) |->
              [k \in 1..Len(SeqOf({e \in g.disrupts : e.to = target /\ e.from = NodeSeq[i]})) |->
                  <<NodeSeq[i],
                    SeqOf({e \in g.disrupts : e.to = target /\ e.from = NodeSeq[i]})[k].strength>>]])

\* The if / else of strategy 2: the edge is appended and competitive_threat
\* raised to the maximum, or the candidate is made.
AcqMergeDisruptor(g, cands, cid, strength) ==
    IF HasCandidate(cands, cid)
    THEN [cands EXCEPT
            ![IndexOfCandidate(cands, cid)].graph_edges = Append(@, Edge("DISRUPTS", strength)),
            ![IndexOfCandidate(cands, cid)].competitive_threat = Max2(@, OrZero(strength))]
    ELSE Append(cands, [_record_to_candidate(g, cid, <<Edge("DISRUPTS", strength)>>)
                           EXCEPT !.competitive_threat = OrZero(strength)])

RECURSIVE AcqStrategy2(_, _, _)
AcqStrategy2(g, cands, records) ==
    IF records = <<>> THEN cands
    ELSE AcqStrategy2(g, AcqMergeDisruptor(g, cands, records[1][1], records[1][2]),
                      Tail(records))

\* Query 4: the partners of the acquirer with the strength of the
\* relationship (a graph holds at most one per pair).
AcquirerPartners(g, acq) ==
    {<<IF r.from = acq THEN r.to ELSE r.from, OrZero(r.strength)>> :
        r \in {e \in g.partners : e.from = acq \/ e.to = acq}}

\* The loop after query 4: partnership_fit and a PARTNERS_WITH edge for the
\* candidates that partner with the acquirer.
AcqPartnerBonus(g, cands, acq) ==
    [i \in 1..Len(cands) |->
        IF \E pr \in AcquirerPartners(g, acq) : pr[1] = cands[i].company_id
        THEN LET fit == (CHOOSE pr \in AcquirerPartners(g, acq) :
                            pr[1] = cands[i].company_id)[2]
             IN  [cands[i] EXCEPT !.partnership_fit = fit,
                                  !.graph_edges = Append(@, Edge("PARTNERS_WITH", fit))]
        ELSE cands[i]]

\* The candidate dict of get_acquisition_targets after each of its steps.
AcquisitionStages(g, acq, target) ==
    LET a1 == AcqStrategy1(g, <<>>, Without(CompetesRecords(g, target), acq))
        a2 == AcqStrategy2(g, a1, Without(DisruptorRecords(g, target), acq))
        a3 == MergeAll(g, a2, Without(SegmentRecords(g, target), acq))
        a4 == AcqPartnerBonus(g, a3, acq)
    IN  <<a1, a2, a3, a4>>

\* get_acquisition_targets(driver, acquirer, compete_with).
get_acquisition_targets(g, acq, target) ==
    _enrich_partnership_counts(g, AcquisitionStages(g, acq, target)[4])

-----------------------------------------------------------------------------
(* SpecGraph: get_competitors_to on a drawn graph, then the ranking of search *)

\* How a node relates to the center: COMPETES_WITH relationships as
\* <<direction, strength>>, the segments and themes it belongs to, DISRUPTS
\* relationships by direction, and whether it partners with the center.
RelProfile(comp, segs, themes, dis, partner) ==
    [comp |-> comp, segs |-> segs, themes |-> themes, dis |-> dis, partner |-> partner]

RelProfiles ==
    { RelProfile({}, {}, {}, {}, FALSE),
      RelProfile({}, {}, {"t1"}, {}, FALSE),
      RelProfile({}, {}, {"t1", "t2"}, {}, TRUE),
      RelProfile({}, {"s1"}, {"t1"}, {}, FALSE),
      RelProfile({}, {"s1", "s2"}, {}, {}, FALSE),
      RelProfile({<<"out", None>>}, {}, {"t1"}, {}, TRUE),
      RelProfile({<<"out", Some(50)>>, <<"in", Some(100)>>}, {"s1"}, {}, {"out"}, FALSE),
      RelProfile({}, {}, {"t2"}, {"in"}, FALSE),
      RelProfile({}, {}, {}, {"in", "out"}, FALSE),
      RelProfile({<<"in", Some(20)>>}, {}, {}, {"in"}, TRUE) }

\* The center's own memberships, and whether it has a COMPETES_WITH
\* relationship to itself.
CenterProfiles ==
    { [segs |-> {"s1", "s2"}, themes |-> {"t1", "t2"}, self |-> FALSE],
      [segs |-> {"s1"}, themes |-> {"t1"}, self |-> TRUE] }

\* The properties of the nodes, by position.
NodeAttrs(i) ==
    IF i % 3 = 1 THEN Attrs(Some(12), Some(10), Some(4), Some(0), Some(2), 0, 0, 0)
    ELSE IF i % 3 = 2 THEN Attrs(Some(3), Some(2), Some(0), Some(4), Some(-1), 0, 0, 0)
    ELSE Attrs(None, None, None, None, None, 0, 0, 0)

GraphOf(c, cp, rel) ==
    LET others == Nodes \ {c} IN
    [ competes |->
          UNION {{[from     |-> IF x[1] = "out" THEN c ELSE t,
                   to       |-> IF x[1] = "out" THEN t ELSE c,
                   strength |-> x[2]] : x \in rel[t].comp} : t \in others}
          \cup (IF cp.self THEN {[from |-> c, to |-> c, strength |-> Some(100)]} ELSE {}),
      disrupts |->
          UNION {{[from     |-> IF d = "out" THEN c ELSE t,
                   to       |-> IF d = "out" THEN t ELSE c,
                   strength |-> Some(50)] : d \in rel[t].dis} : t \in others},
      segment |-> {<<c, sg>> : sg \in cp.segs}
                  \cup UNION {{<<t, sg>> : sg \in rel[t].segs} : t \in others},
      theme   |-> {<<c, th>> : th \in cp.themes}
                  \cup UNION {{<<t, th>> : th \in rel[t].themes} : t \in others},
      partners |-> {[from |-> t, to |-> c, strength |-> Some(70)] :
                        t \in {n \in others : rel[n].partner}},
      attrs    |-> [n \in Nodes |-> NodeAttrs(CHOOSE i \in 1..Len(NodeSeq) : NodeSeq[i] = n)] ]

InitGraph ==
    /\ center = NodeSeq[1]
    /\ \E cp \in CenterProfiles, rel \in [Nodes \ {NodeSeq[1]} -> RelProfiles] :
          graph = GraphOf(NodeSeq[1], cp, rel)
    /\ persona \in PersonaSet
    /\ acquirer_id \in Nodes
    /\ retrieved = None /\ acquired = None
    /\ candidates = <<>> /\ ranked = None /\ earlier = None
    /\ query_text = <<>> /\ parsed = None /\ rung = "" /\ resolved = None
    /\ caller_persona = "" /\ fail_at = 0 /\ gathered = <<>> /\ outcome = None
    /\ next_node = "" /\ executed = <<>> /\ agent_state = <<>>
    /\ company_lookup = None /\ callers = <<>> /\ catalog_reads = 0

\* One call get_competitors_to(driver, center, persona).
GetCompetitorsTo ==
    /\ retrieved = None /\ acquired = None
    /\ retrieved' = Some(get_competitors_to(graph, center))
    /\ UNCHANGED <<graph, center, acquirer_id, acquired, rankVars, parseVars, searchVars, agentVars, lookupVars>>

\* One call get_acquisition_targets(driver, acquirer, center).
GetAcquisitionTargets ==
    /\ retrieved = None /\ acquired = None
    /\ acquired' = Some(get_acquisition_targets(graph, acquirer_id, center))
    /\ UNCHANGED <<graph, center, acquirer_id, retrieved, rankVars, parseVars, searchVars, agentVars, lookupVars>>

\* The next statement of search for a competitors_to query:
\* ranked = rank_candidates(candidates, persona_config).
RankRetrieved ==
    /\ retrieved # None
    /\ ranked = None
    /\ ranked' = Some(rank_candidates(retrieved[1], persona))
    /\ UNCHANGED <<candidates, persona, earlier, parseVars, graphVars, searchVars, agentVars, lookupVars>>

NextGraph == GetCompetitorsTo \/ GetAcquisitionTargets \/ RankRetrieved

SpecGraph == InitGraph /\ [][NextGraph]_vars

-----------------------------------------------------------------------------
(* Properties of get_competitors_to, checked under SpecGraph *)

Retrieved == retrieved[1]
RetrievedIds == {Retrieved[i].company_id : i \in 1..Len(Retrieved)}
RecordIds(records) == {records[i][1] : i \in 1..Len(records)}

\* The nodes joined to the center by shared themes and by nothing else.
ThemeOnlyNodes ==
    RecordIds(ThemeRecords(graph, center))
        \ (RecordIds(CompetesRecords(graph, center))
           \cup RecordIds(SegmentRecords(graph, center))
           \cup RecordIds(DisruptsRecords(graph, center)))

\* C4: every candidate get_competitors_to returns, and every result of the
\* ranking that follows it in a competitors_to search, has at least one
\* COMPETES_WITH, DISRUPTS or TARGETS_SAME_SEGMENT edge; a node joined to the
\* center by shared themes only is not returned.
C4_NoThemeOnlyCandidate ==
    /\ retrieved # None =>
          /\ \A i \in 1..Len(Retrieved) : EdgeTypes(Retrieved[i]) \cap StrongTypes # {}
          /\ RetrievedIds \cap ThemeOnlyNodes = {}
    /\ ranked # None =>
          \A i \in 1..Len(ranked[1]) :
              {ranked[1][i].graph_context[k].type :
                  k \in 1..Len(ranked[1][i].graph_context)} \cap StrongTypes # {}

\* A search over a graph with a theme-only neighbour of the center, which was
\* dropped, and a returned candidate that has a shared-theme edge beside a
\* strong one.
C4_Witness ==
    /\ retrieved # None /\ ranked # None
    /\ ThemeOnlyNodes # {}
    /\ \E i \in 1..Len(ranked[1]) :
          \E k \in 1..Len(ranked[1][i].graph_context) :
              ranked[1][i].graph_context[k].type = "SHARES_INVESTMENT_THEME"

-----------------------------------------------------------------------------
(* Properties of the merging of strategies, checked under SpecGraph *)

IsPrefix(a, b) == Len(a) <= Len(b) /\ SubSeq(b, 1, Len(a)) = a

\* Every record of the dict before a strategy is there after it, in its
\* place, with the edges it had at the head of its edge list and every other
\* field as it was.
KeepsRecords(before, after) ==
    /\ Len(before) <= Len(after)
    /\ \A i \in 1..Len(before) :
          /\ IsPrefix(before[i].graph_edges, after[i].graph_edges)
          /\ [after[i] EXCEPT !.graph_edges = before[i].graph_edges] = before[i]

\* The same, competitive_threat being allowed to grow.
KeepsRecordsButThreat(before, after) ==
    /\ Len(before) <= Len(after)
    /\ \A i \in 1..Len(before) :
          /\ IsPrefix(before[i].graph_edges, after[i].graph_edges)
          /\ after[i].competitive_threat >= before[i].competitive_threat
          /\ [after[i] EXCEPT !.graph_edges = before[i].graph_edges,
                              !.competitive_threat = before[i].competitive_threat] = before[i]

\* C11 as stated: in get_competitors_to and in get_acquisition_targets a
\* strategy that finds an identifier the dict holds only appends an edge and
\* leaves every other field of the record as it was.
C11_AppendOnlyEveryField ==
    /\ retrieved # None =>
          \A k \in 1..3 : KeepsRecords(CompetitorsStages(graph, center)[k],
                                       CompetitorsStages(graph, center)[k + 1])
    /\ acquired # None =>
          \A k \in 1..2 : KeepsRecords(AcquisitionStages(graph, acquirer_id, center)[k],
                                       AcquisitionStages(graph, acquirer_id, center)[k + 1])

\* C11, amended: the dict is append-only per identifier in both functions and
\* no strategy replaces a record; in get_competitors_to every field but the
\* edge list stays as it was (competition_strength included); in
\* get_acquisition_targets the disruption strategy also raises the
\* competitive_threat of a record it finds again to the maximum of its value
\* and the disruption strength, every other field staying as it was.
C11_AppendOnlyButThreat ==
    /\ retrieved # None =>
          \A k \in 1..3 : KeepsRecords(CompetitorsStages(graph, center)[k],
                                       CompetitorsStages(graph, center)[k + 1])
    /\ acquired # None =>
          /\ KeepsRecordsButThreat(AcquisitionStages(graph, acquirer_id, center)[1],
                                   AcquisitionStages(graph, acquirer_id, center)[2])
          /\ KeepsRecords(AcquisitionStages(graph, acquirer_id, center)[2],
                          AcquisitionStages(graph, acquirer_id, center)[3])

\* A call of get_acquisition_targets in which the disruption strategy found a
\* competitor again and raised its competitive_threat, and the segment
\* strategy found a candidate again.
C11_Witness ==
    /\ acquired # None
    /\ LET st == AcquisitionStages(graph, acquirer_id, center) IN
          /\ \E i \in 1..Len(st[1]) :
                st[2][i].competitive_threat > st[1][i].competitive_threat
          /\ \E i \in 1..Len(st[2]) :
                Len(st[3][i].graph_edges) > Len(st[2][i].graph_edges)

-----------------------------------------------------------------------------
(* Properties of the edge lists of get_competitors_to, checked under SpecGraph *)

AllEdgeTypes == {"COMPETES_WITH", "TARGETS_SAME_SEGMENT", "SHARES_INVESTMENT_THEME", "DISRUPTS"}

\* The number of edges of a type in a candidate's edge list.
CountType(cand, ty) ==
    Cardinality({k \in 1..Len(cand.graph_edges) : cand.graph_edges[k].type = ty})

\* What the graph holds between the center and a company.
SharedSegments(t) ==
    {x[2] : x \in {y \in graph.segment : y[1] = center /\ <<t, y[2]>> \in graph.segment}}
DisruptsBetween(t) ==
    {e \in graph.disrupts : (e.from = center /\ e.to = t) \/ (e.to = center /\ e.from = t)}
Bit(b) == IF b THEN 1 ELSE 0

\* C12 as stated: after get_competitors_to the edge list of each candidate
\* holds at most one edge of each type.
C12_OneEdgePerType ==
    retrieved # None =>
        \A i \in 1..Len(Retrieved) : \A ty \in AllEdgeTypes :
            CountType(Retrieved[i], ty) <= 1

\* C12, amended: after get_competitors_to each candidate holds one
\* COMPETES_WITH edge when it competes with the subject and one
\* SHARES_INVESTMENT_THEME edge when it shares themes with it (those queries
\* aggregate per candidate), but one TARGETS_SAME_SEGMENT edge for every
\* segment it shares with the subject and one DISRUPTS edge for every
\* disruption relationship between the two, in either direction.
C12_OneEdgePerRecord ==
    retrieved # None =>
        \A i \in 1..Len(Retrieved) :
            LET t == Retrieved[i].company_id IN
            /\ CountType(Retrieved[i], "COMPETES_WITH")
                  = Bit(CompetesStrengths(graph, center, t) # {})
            /\ CountType(Retrieved[i], "SHARES_INVESTMENT_THEME")
                  = Bit(t # center /\ SharedThemes(graph, center, t) # {})
            /\ CountType(Retrieved[i], "TARGETS_SAME_SEGMENT")
                  = IF t = center THEN 0 ELSE Cardinality(SharedSegments(t))
            /\ CountType(Retrieved[i], "DISRUPTS") = Cardinality(DisruptsBetween(t))
            /\ Len(Retrieved[i].graph_edges)
                  = CountType(Retrieved[i], "COMPETES_WITH")
                    + CountType(Retrieved[i], "SHARES_INVESTMENT_THEME")
                    + CountType(Retrieved[i], "TARGETS_SAME_SEGMENT")
                    + CountType(Retrieved[i], "DISRUPTS")

\* A result with a candidate that shares two segments with the subject and a
\* candidate joined to it by disruption in both directions.
C12_Witness ==
    /\ retrieved # None
    /\ \E i \in 1..Len(Retrieved) : CountType(Retrieved[i], "TARGETS_SAME_SEGMENT") = 2
    /\ \E i \in 1..Len(Retrieved) : CountType(Retrieved[i], "DISRUPTS") = 2

-----------------------------------------------------------------------------
(* graph_traversal.py: get_compare_data, get_attribute_ranked, get_graph_data *)

SetOf(seq) == {seq[i] : i \in 1..Len(seq)}
IdsOf(cands) == [i \in 1..Len(cands) |-> cands[i].company_id]

\* The elements of seq that are in S, in the order of seq.
Keep(seq, S) == Concat([i \in 1..Len(seq) |-> IF seq[i] \in S THEN <<seq[i]>> ELSE <<>>])

\* MATCH (t:Company {company_id: $cid}) ... .single(): the candidate of the
\* node, None when the graph has no such node.
NodeCandidate(g, cid) ==
    IF cid \in Nodes THEN Some(_record_to_candidate(g, cid, <<>>)) ELSE None

\* The relationships between Company nodes, as get_graph_data returns them.
CompanyRels(g) ==
    {[source |-> e.from, target |-> e.to, type |-> "COMPETES_WITH", strength |-> e.strength] :
        e \in g.competes}
    \cup {[source |-> e.from, target |-> e.to, type |-> "DISRUPTS", strength |-> e.strength] :
        e \in g.disrupts}
    \cup {[source |-> e.from, target |-> e.to, type |-> "PARTNERS_WITH", strength |-> e.strength] :
        e \in g.partners}

Joins(e, x, y) == (e.source = x /\ e.target = y) \/ (e.source = y /\ e.target = x)

\* (a)-[:COMPETES_WITH]-(common)-[:COMPETES_WITH]-(b), common <> a, b, WITH
\* DISTINCT common: the two relationships of the pattern are different ones.
IsCommonCompetitor(g, a, b, t) ==
    /\ t \notin {a, b}
    /\ a \in Nodes /\ b \in Nodes
    /\ \E r1, r2 \in {e \in CompanyRels(g) : e.type = "COMPETES_WITH"} :
          r1 # r2 /\ Joins(r1, a, t) /\ Joins(r2, t, b)

CommonCompetitors(g, a, b) ==
    Concat([i \in 1..Len(NodeSeq) |->
              IF IsCommonCompetitor(g, a, b, NodeSeq[i])
              THEN <<_record_to_candidate(g, NodeSeq[i], <<>>)>> ELSE <<>>])

get_compare_data(g, company_a, company_b) ==
    [ company_a          |-> NodeCandidate(g, company_a),
      company_b          |-> NodeCandidate(g, company_b),
      shared_edges       |-> {[rel_type |-> e.type, strength |-> e.strength] :
                                 e \in {r \in CompanyRels(g) :
                                          /\ company_a \in Nodes /\ company_b \in Nodes
                                          /\ Joins(r, company_a, company_b)}},
      common_competitors |-> CommonCompetitors(g, company_a, company_b),
      shared_segments    |-> {x[2] : x \in {y \in g.segment :
                                 y[1] = company_a /\ <<company_b, y[2]>> \in g.segment}},
      shared_themes      |-> SharedThemes(g, company_a, company_b) ]

\* A node property, None for null and for a property the node does not carry.
AttrValue(g, n, attribute) ==
    IF attribute \in DOMAIN g.attrs[n] THEN g.attrs[n][attribute] ELSE None

valid_attrs ==
    {"moat_durability", "enterprise_readiness_score", "developer_adoption_score",
     "product_maturity_score", "customer_switching_cost", "revenue_predictability",
     "market_timing_score", "operational_improvement_potential",
     "market_cap_b", "revenue_ttm_b", "operating_margin", "yoy_employee_growth"}

\* ORDER BY t.<attribute> DESC over the nodes that have the property; nodes
\* of equal value stay in node order.
RECURSIVE OrderByDesc(_, _, _)
OrderByDesc(g, attribute, nodes) ==
    IF nodes = <<>> THEN <<>>
    ELSE LET rest == OrderByDesc(g, attribute, Tail(nodes))
             v    == AttrValue(g, nodes[1], attribute)[1]
             k    == Cardinality({j \in 1..Len(rest) : AttrValue(g, rest[j], attribute)[1] > v})
         IN  SubSeq(rest, 1, k) \o <<nodes[1]>> \o SubSeq(rest, k + 1, Len(rest))

AttributeLimit == 20

get_attribute_ranked(g, attribute) ==
    LET attr    == IF attribute \in valid_attrs THEN attribute ELSE "moat_durability"
        having  == Keep(NodeSeq, {n \in Nodes : AttrValue(g, n, attr) # None})
        ordered == OrderByDesc(g, attr, having)
        limited == SubSeq(ordered, 1, Min2(AttributeLimit, Len(ordered)))
    IN  _enrich_partnership_counts(g,
            [i \in 1..Len(limited) |-> _record_to_candidate(g, limited[i], <<>>)])

\* The query of get_graph_data keeping every relationship of the matched
\* nodes, whatever its other end.
get_graph_data_unconfined(g, company_ids, center_id) ==
    IF company_ids = <<>> THEN [nodes |-> <<>>, edges |-> {}]
    ELSE [ nodes |-> [i \in 1..Len(Keep(NodeSeq, SetOf(company_ids))) |->
                        [id        |-> Keep(NodeSeq, SetOf(company_ids))[i],
                         is_center |-> Keep(NodeSeq, SetOf(company_ids))[i] = center_id]],
           edges |-> {e \in CompanyRels(g) :
                        e.source \in SetOf(company_ids) \/ e.target \in SetOf(company_ids)} ]

\* get_graph_data: one node per Company whose id is in company_ids, and the
\* relationships between two such Companies, one per source-type-target key.
get_graph_data(g, company_ids, center_id) ==
    IF company_ids = <<>> THEN [nodes |-> <<>>, edges |-> {}]
    ELSE LET ids   == SetOf(company_ids)
             found == Keep(NodeSeq, ids)
             rels  == {e \in CompanyRels(g) : e.source \in ids /\ e.target \in ids}
             SameKey(e, f) == e.source = f.source /\ e.type = f.type /\ e.target = f.target
         IN  [ nodes |-> [i \in 1..Len(found) |->
                            [id |-> found[i], is_center |-> found[i] = center_id]],
               edges |-> {CHOOSE f \in rels : SameKey(e, f) : e \in rels} ]

-----------------------------------------------------------------------------
(* search_pipeline.py: search *)

\* The company identifiers of the parser's tables are the company_id values
\* of the graph store.  The model writes the former as character tuples and
\* the latter as the names of CompanyIds; GraphId takes one to the other, and
\* leaves an identifier the drawn graphs never hold as it is.
SearchCompanies == <<snowflake, neon, dbt_labs, redshift>>

GraphId(id) ==
    IF id = <<>> THEN ""
    ELSE IF \E i \in 1..Len(SearchCompanies) : SearchCompanies[i] = id
    THEN CompanyIds[CHOOSE i \in 1..Len(SearchCompanies) : SearchCompanies[i] = id]
    ELSE id

\* Step 2 of search with the caller's persona taking precedence over the
\* persona found in the text.
ActivePersonaCallerFirst(pq, p) ==
    LET a == IF p # "" THEN p ELSE IF pq.persona # None THEN pq.persona[1] ELSE p
    IN  IF a \in PersonaSet THEN a ELSE "value_investor"

\* Step 2 of search: active_persona = parsed.persona or persona, and
\* value_investor when that is not a key of PERSONAS.
ActivePersona(pq, p) ==
    LET a == IF pq.persona # None THEN pq.persona[1] ELSE p
    IN  IF a \in PersonaSet THEN a ELSE "value_investor"

Top10(rs) == SubSeq(rs, 1, Min2(10, Len(rs)))

\* _enrich_partnership_counts returns before its query when there is no
\* candidate.
EnrichQueries(cands) == IF cands = <<>> THEN 0 ELSE 1

\* Step 3 of search up to the call of rank_candidates: the candidates, the
\* persona whose weights rank them, the persona the result reports, the
\* identifiers that go before the ranked ones in company_ids, center_id, and
\* the number of graph-store queries issued so far.
Retrieval(g, pq, active) ==
    LET target   == GraphId(pq.target_company)
        other    == GraphId(pq.compare_company)
        acq      == GraphId(pq.acquirer)
    IN  IF pq.query_type = "competitors_to"
        THEN LET cands == get_competitors_to(g, target) IN
             [ candidates |-> cands, rank_persona |-> active, persona |-> active,
               subjects |-> <<target>>, extra |-> <<>>, ranked_ids |-> TRUE,
               center_id |-> target, compare_data |-> None,
               queries |-> 4 + EnrichQueries(cands) ]
        ELSE IF pq.query_type = "compare"
        THEN LET cd == get_compare_data(g, target, other) IN
             [ candidates |-> cd.company_a \o cd.company_b \o cd.common_competitors,
               rank_persona |-> active, persona |-> active,
               subjects |-> <<target, other>>, extra |-> IdsOf(cd.common_competitors),
               ranked_ids |-> FALSE,
               center_id |-> "", compare_data |-> Some(cd),
               queries |-> 6 ]
        ELSE IF pq.query_type = "acquisition_target"
        THEN LET cands == get_acquisition_targets(g, acq, target) IN
             [ candidates |-> cands,
               rank_persona |-> "strategic_acquirer", persona |-> "strategic_acquirer",
               subjects |-> <<acq, target>>, extra |-> <<>>, ranked_ids |-> TRUE,
               center_id |-> target, compare_data |-> None,
               queries |-> 4 + EnrichQueries(cands) ]
        ELSE LET cands == get_attribute_ranked(g,
                              IF pq.attribute # None THEN pq.attribute[1]
                              ELSE "moat_durability") IN
             [ candidates |-> cands, rank_persona |-> active, persona |-> active,
               subjects |-> <<>>, extra |-> <<>>, ranked_ids |-> TRUE,
               center_id |-> "", compare_data |-> None,
               queries |-> 1 + EnrichQueries(cands) ]

Raised == [kind |-> "raised"]

\* The try of search with an except clause that answers a failed query with
\* a result without candidates.
TryExceptEmpty(fail, issued, result) ==
    IF fail \in 1..issued
    THEN [result EXCEPT !.results = <<>>, !.candidates = <<>>,
                        !.graph_data = [nodes |-> <<>>, edges |-> {}]]
    ELSE result

\* try: ... finally: driver.close(), with no except clause: the exception of
\* a failed query leaves search, otherwise the result is returned.
TryFinally(fail, issued, result) ==
    IF fail \in 1..issued THEN Raised ELSE result

\* company_ids of step 3: the subjects, for compare the common competitors,
\* otherwise the first ten ranked identifiers.
CompanyIdsOf(r, results) ==
    r.subjects \o r.extra \o (IF r.ranked_ids THEN IdsOf(Top10(results)) ELSE <<>>)

\* get_graph_data returns before its query when company_ids is empty.
GraphQueries(company_ids) == IF company_ids = <<>> THEN 0 ELSE 1

\* The SearchResult of step 3.  Besides the fields of SearchResult it carries
\* the list and the persona that were handed to rank_candidates, the
\* identifiers handed to get_graph_data, and the number of queries issued.
SearchResult(pq, r, results, company_ids, g) ==
    [ kind         |-> "result",
      query        |-> pq,
      persona      |-> r.persona,
      results      |-> results,
      compare_data |-> r.compare_data,
      graph_data   |-> get_graph_data(g, company_ids, r.center_id),
      candidates   |-> r.candidates,
      rank_persona |-> r.rank_persona,
      company_ids  |-> company_ids,
      queries      |-> r.queries + GraphQueries(company_ids) ]

\* search from the call of get_graph_data on.
SearchRanked(pq, r, results, company_ids, g, fail) ==
    TryFinally(fail, r.queries + GraphQueries(company_ids),
               SearchResult(pq, r, results, company_ids, g))

\* search from the building of company_ids on.
SearchRetrieved(pq, r, results, g, fail) ==
    SearchRanked(pq, r, results, CompanyIdsOf(r, results), g, fail)

\* search from the call of rank_candidates on, the retrieval done.
SearchParsed(pq, r, g, fail) ==
    SearchRetrieved(pq, r, rank_candidates(r.candidates, r.rank_persona), g, fail)

\* search from step 2 on.  search(query, persona) on the store g, where the
\* fail-th graph-store query of the request raises (none when fail = 0).
SearchQuery(pq, p, g, fail) ==
    SearchParsed(pq, Retrieval(g, pq, ActivePersona(pq, p)), g, fail)

search(query, p, g, fail) == SearchQuery(parse_query(query), p, g, fail)

\* graph/queries.py get_driver(): a new driver, opened and not yet closed.
get_driver == [opened |-> 1, closed |-> 0]

\* driver.close().
DriverClose(driver) == [driver EXCEPT !.closed = @ + 1]

\* The driver of search with driver.close() as the last statement of the
\* try block instead of a finally clause: an exception skips it.
SearchDriverClosedOnReturn(returned) ==
    IF returned = Raised THEN get_driver ELSE DriverClose(get_driver)

\* The driver of one call of search when the call is left: driver =
\* get_driver() before the try block, driver.close() in its finally clause,
\* which runs when the try block returns and when an exception leaves it.
SearchDriver(returned) ==
    IF returned = Raised THEN DriverClose(get_driver) ELSE DriverClose(get_driver)

\* The loop of search_all_personas run without handing persona_name to search.
search_all_personas_unpassed(query, g, fail) ==
    IF search(query, "", g, fail) = Raised THEN Raised
    ELSE [kind |-> "by_persona",
          results |-> [persona_name \in PersonaSet |-> search(query, "", g, fail)]]

\* search_all_personas(query): results[persona_name] = search(query,
\* persona=persona_name) for each name of list_personas(); an exception of a
\* call leaves the loop.
search_all_personas(query, g, fail) ==
    IF \E persona_name \in PersonaSet : search(query, persona_name, g, fail) = Raised
    THEN Raised
    ELSE [kind |-> "by_persona",
          results |-> [persona_name \in PersonaSet |-> search(query, persona_name, g, fail)]]

-----------------------------------------------------------------------------
(* agents/nodes.py: rank_node *)

\* The value rank_node returns when an exception reaches its outer except.
RankingFailed == [kind |-> "error"]

\* graph_ids of rank_node: center_id, when there is one, and the first ten
\* ranked identifiers, without repetition; for a comparison the keys of
\* gathered_candidates.
GraphIdsOf(gath, compared, center_id, results) ==
    IF compared THEN IdsOf(gath)
    ELSE (IF center_id = "" THEN <<>> ELSE <<center_id>>)
         \o Keep(IdsOf(Top10(results)), SetOf(IdsOf(results)) \ {center_id})

\* The persona rank_node ranks with.
RankPersona(pq, compared, active) ==
    IF ~compared /\ pq.query_type = "acquisition_target" THEN "strategic_acquirer" ELSE active

\* search_dict of rank_node, with the fields the model adds to SearchResult.
SearchDict(g, pq, active, rank_persona, gath, compared, center_id, results, company_ids) ==
    [ kind         |-> "result",
      query        |-> [pq EXCEPT !.persona = Some(active)],
      persona      |-> active,
      results      |-> results,
      compare_data |-> IF compared THEN Some("compare_data") ELSE None,
      graph_data   |-> get_graph_data(g, company_ids, IF compared THEN "" ELSE center_id),
      candidates   |-> gath,
      rank_persona |-> rank_persona,
      company_ids  |-> company_ids,
      queries      |-> GraphQueries(company_ids) ]

\* rank_node from the call of get_graph_data on: an exception reaches the
\* outer except.
RankNodeRanked(g, pq, active, rank_persona, gath, compared, center_id, results, company_ids, fail) ==
    IF fail \in 1..GraphQueries(company_ids) THEN RankingFailed
    ELSE SearchDict(g, pq, active, rank_persona, gath, compared, center_id, results, company_ids)

\* rank_node when the tool loop gathered something.
RankGathered(g, pq, active, rank_persona, gath, compared, center_id, results, fail) ==
    RankNodeRanked(g, pq, active, rank_persona, gath, compared, center_id, results,
                   GraphIdsOf(gath, compared, center_id, results), fail)

\* The fallback of rank_node: the result of search, or the error value when
\* search raises.
RankFallback(r) == IF r = Raised THEN RankingFailed ELSE r

\* rank_node(state) for state["query"] = query, state["persona"] = p,
\* state["gathered_candidates"] = gath (in insertion order; the drawn requests
\* take what the tools of the request's intent retrieve), a truthy
\* state["compare_data"] when compared, state["center_company_id"] =
\* center_id, and state["parsed_intent"] built from parse_query(query) by
\* run_agent.  The only graph-store query of the ranking itself is that of
\* get_graph_data.  RankNodeParsed is the body once the personas are
\* resolved, RankNodeIntent and RankNodeState the steps before it.
RankNodeParsed(pq, active, rank_persona, query, p, g, gath, compared, center_id, fail) ==
    IF gath = <<>> /\ ~compared
    THEN RankFallback(search(query, p, g, fail))
    ELSE RankGathered(g, pq, active, rank_persona, gath, compared, center_id,
                      rank_candidates(gath, rank_persona), fail)

RankNodeIntent(pq, active, query, p, g, gath, compared, center_id, fail) ==
    RankNodeParsed(pq, active, RankPersona(pq, compared, active),
                   query, p, g, gath, compared, center_id, fail)

RankNodeState(pq, query, p, g, gath, compared, center_id, fail) ==
    RankNodeIntent(pq, ActivePersona(pq, p), query, p, g, gath, compared, center_id, fail)

rank_node(query, p, g, gath, compared, center_id, fail) ==
    RankNodeState(parse_query(query), query, p, g, gath, compared, center_id, fail)

-----------------------------------------------------------------------------
(* SpecSearch: one request, handled by search or by rank_node *)

\* The texts of the drawn requests: each intent, with and without a persona
\* word, a comparison of a company with itself under two names, and a
\* company the smaller graphs do not hold.
SearchTexts ==
    { <<"competitors to">> \o snowflake,
      <<"competitors to">> \o snowflake \o <<"pe">>,
      <<"competitors to">> \o <<"a", "w", "s">>,
      <<"compare">> \o snowflake \o <<"vs">> \o neon,
      <<"compare">> \o snowflake \o <<"vs">> \o <<" ", "S", "n", "o", "w", ".">>,
      <<"acquisition target for">> \o snowflake \o <<"to compete with">> \o neon,
      <<"acquisition target for">> \o neon \o <<"to compete with">> \o snowflake \o <<"growth">>,
      <<"which">> \o <<"moat">> }

\* The persona argument: one of the five names, a name PERSONAS does not
\* have, and the empty string.
CallerPersonas == {"growth_vc", "robo_advisor", ""}

\* The most graph-store queries one request issues (compare: six and the
\* subgraph query).
MaxQueries == 7

SearchRelProfiles ==
    { RelProfile({<<"out", Some(50)>>, <<"in", Some(100)>>}, {"s1"}, {}, {"out"}, FALSE),
      RelProfile({}, {}, {"t1", "t2"}, {}, TRUE),
      RelProfile({<<"in", Some(20)>>}, {}, {}, {"in"}, TRUE) }

\* A COMPETES_WITH relationship that does not touch the first node.
ExtraCompetes ==
    {[from |-> NodeSeq[Min2(2, Len(NodeSeq))], to |-> NodeSeq[Len(NodeSeq)],
      strength |-> Some(30)]}

DrawnGraph(cp, rel) ==
    [GraphOf(NodeSeq[1], cp, rel) EXCEPT !.competes = @ \cup ExtraCompetes]

\* gathered_candidates[cid] = c_dict for each candidate of a tool result: a
\* dict keyed by company_id.
RECURSIVE Accumulate(_, _)
Accumulate(gath, cands) ==
    IF cands = <<>> THEN gath
    ELSE Accumulate(PutCandidate(gath, cands[1]), Tail(cands))

\* What the tools of the request's intent put into gathered_candidates.
Gathered(g, pq, p) == Accumulate(<<>>, Retrieval(g, pq, ActivePersona(pq, p)).candidates)

\* The values of state["center_company_id"]: unset, or the request's target.
CenterIds(pq) == {"", GraphId(pq.target_company)}

InitSearch ==
    /\ query_text \in SearchTexts
    /\ caller_persona \in CallerPersonas
    /\ fail_at \in 0..MaxQueries
    /\ \E cp \in CenterProfiles, rel \in [Nodes \ {NodeSeq[1]} -> SearchRelProfiles] :
          /\ graph = DrawnGraph(cp, rel)
          /\ gathered = Gathered(DrawnGraph(cp, rel), parse_query(query_text), caller_persona)
    /\ outcome = None
    /\ next_node = "" /\ executed = <<>> /\ agent_state = <<>>
    /\ company_lookup = None /\ callers = <<>> /\ catalog_reads = 0
    /\ center = NodeSeq[1] /\ retrieved = None /\ acquirer_id = "" /\ acquired = None
    /\ candidates = <<>> /\ persona = "value_investor" /\ ranked = None /\ earlier = None
    /\ parsed = None /\ rung = "" /\ resolved = None

\* What one call of search leaves behind: the value returned or the
\* exception raised, and the driver it opened.
SearchLeft(returned) ==
    [handler |-> "search", returned |-> returned, driver |-> SearchDriver(returned)]

\* One call search(query_text, caller_persona).
Search ==
    /\ outcome = None
    /\ outcome' = Some(SearchLeft(search(query_text, caller_persona, graph, fail_at)))
    /\ UNCHANGED <<caller_persona, fail_at, gathered, rankVars, parseVars, graphVars, agentVars, lookupVars>>

\* One call rank_node(state) at the end of the tool loop.
RankNode ==
    /\ outcome = None
    /\ \E compared \in BOOLEAN, center_id \in CenterIds(parse_query(query_text)) :
          outcome' = Some([handler  |-> "rank_node",
                           returned |-> rank_node(query_text, caller_persona, graph, gathered,
                                                  compared, center_id, fail_at)])
    /\ UNCHANGED <<caller_persona, fail_at, gathered, rankVars, parseVars, graphVars, agentVars, lookupVars>>

\* One call search_all_personas(query_text).
SearchAllPersonas ==
    /\ outcome = None
    /\ outcome' = Some([handler  |-> "search_all_personas",
                        returned |-> search_all_personas(query_text, graph, fail_at)])
    /\ UNCHANGED <<caller_persona, fail_at, gathered, rankVars, parseVars, graphVars, agentVars, lookupVars>>

NextSearch == Search \/ RankNode \/ SearchAllPersonas

SpecSearch == InitSearch /\ [][NextSearch]_vars

-----------------------------------------------------------------------------
(* Properties of search and rank_node, checked under SpecSearch *)

Returned   == outcome[1].returned
BySearch   == outcome # None /\ outcome[1].handler = "search"
ByRankNode == outcome # None /\ outcome[1].handler = "rank_node"
IsResult   == outcome # None /\ Returned.kind = "result"

NoRepeat(seq) == \A i, j \in 1..Len(seq) : i # j => seq[i] # seq[j]

\* C13 as stated: the candidate list search hands to rank_candidates holds
\* each company identifier at most once, for every intent, comparisons
\* included.
C13_CandidateIdsUnique ==
    (BySearch /\ IsResult) => NoRepeat(IdsOf(Returned.candidates))

\* C14 as stated: the result of an acquisition_target request was ranked
\* with the strategic_acquirer persona and reports persona =
\* strategic_acquirer, whatever the caller's persona and the persona word of
\* the text.
C14_AcquisitionReportsStrategicAcquirer ==
    (IsResult /\ Returned.query.query_type = "acquisition_target") =>
        /\ Returned.rank_persona = "strategic_acquirer"
        /\ Returned.persona = "strategic_acquirer"

\* The persona the claim gives a request that is not an acquisition request:
\* the persona found in the text, else the caller's when it is one of the
\* five, else value_investor.
ExpectedPersona ==
    IF _detect_persona(query_text) # None THEN _detect_persona(query_text)[1]
    ELSE IF caller_persona \in {"value_investor", "pe_firm", "growth_vc",
                                "strategic_acquirer", "enterprise_buyer"}
    THEN caller_persona
    ELSE "value_investor"

\* C15: for an intent other than acquisition_target, search ranks with and
\* reports the persona found in the text if there is one, else the caller's
\* persona if it is one of the five, else value_investor; and a persona name
\* that is not one of the five never makes search raise (it raises only
\* when a graph-store query fails).
C15_PersonaResolution ==
    BySearch =>
        /\ (IsResult /\ Returned.query.query_type # "acquisition_target") =>
              /\ Returned.rank_persona = ExpectedPersona
              /\ Returned.persona = ExpectedPersona
        /\ fail_at = 0 => IsResult

\* A request with a persona word in the text, and the caller naming another
\* persona; or no persona word and a name that is not one of the five.
C15_Witness ==
    /\ BySearch /\ IsResult
    /\ Returned.query.query_type = "competitors_to"
    /\ \/ (_detect_persona(query_text) = Some("pe_firm") /\ caller_persona = "growth_vc"
           /\ Returned.persona = "pe_firm")
       \/ (_detect_persona(query_text) = None /\ caller_persona = "robo_advisor"
           /\ Returned.persona = "value_investor")

\* The identifiers the subgraph of a result of search may show: the
\* subjects of the query, the first ten ranked ones, and for a comparison
\* the common competitors.
Subjects ==
    {GraphId(Returned.query.target_company), GraphId(Returned.query.compare_company),
     GraphId(Returned.query.acquirer)} \ {""}

Requested ==
    Subjects
    \cup SetOf(IdsOf(Top10(Returned.results)))
    \cup (IF Returned.compare_data = None THEN {}
          ELSE SetOf(IdsOf(Returned.compare_data[1].common_competitors)))

\* C17: the subgraph of a search result is confined to the requested
\* identifiers: every node id is a subject, one of the first ten ranked ids
\* or, for a comparison, a common competitor, and every edge has its source
\* and its target among them.
C17_SubgraphConfined ==
    (BySearch /\ IsResult) =>
        /\ \A i \in 1..Len(Returned.graph_data.nodes) :
              Returned.graph_data.nodes[i].id \in Requested
        /\ \A e \in Returned.graph_data.edges :
              e.source \in Requested /\ e.target \in Requested

\* A result whose subgraph has an edge, on a graph with a relationship that
\* joins a requested company to one that was not requested.
C17_Witness ==
    /\ BySearch /\ IsResult
    /\ Returned.graph_data.edges # {}
    /\ \E e \in CompanyRels(graph) :
          /\ e \notin Returned.graph_data.edges
          /\ (e.source \in Requested) # (e.target \in Requested)

\* C18: when a graph-store query that search issues fails, search returns
\* no result and the failure leaves it: a returned result means that every
\* query of the request was issued and none of them failed.
C18_FailurePropagates ==
    BySearch =>
        /\ IsResult => fail_at \notin 1..Returned.queries
        /\ Returned.kind \in {"result", "raised"}
        /\ (fail_at \in 1..4 /\ parse_query(query_text).query_type # "attribute_search")
              => Returned = Raised

\* The third strategy of get_competitors_to fails after the first two found
\* candidates, and search raises.
C18_Witness ==
    /\ BySearch
    /\ fail_at = 3
    /\ parse_query(query_text).query_type = "competitors_to"
    /\ CompetitorsStages(graph, GraphId(parse_query(query_text).target_company))[2] # <<>>
    /\ Returned = Raised

-----------------------------------------------------------------------------
(* Further properties of rank_candidates and of PERSONAS, checked under SpecRank *)

\* The place of a company in the list handed to rank_candidates.
InputPos(id) == CHOOSE k \in 1..Len(candidates) : candidates[k].company_id = id

\* C16: rank_candidates breaks ties by input order: of two results with equal
\* composite_score, the one whose candidate came earlier in the input list
\* has the smaller rank.
C16_TiesKeepInputOrder ==
    ranked # None =>
        \A i, j \in 1..Len(ranked[1]) :
            (ranked[1][i].composite_score = ranked[1][j].composite_score
             /\ InputPos(ranked[1][i].company_id) < InputPos(ranked[1][j].company_id))
            => ranked[1][i].rank < ranked[1][j].rank

\* A ranking of two candidates with equal scores.
C16_Witness ==
    /\ ranked # None
    /\ Len(ranked[1]) >= 2
    /\ ranked[1][1].composite_score = ranked[1][2].composite_score
    /\ ranked[1][1].company_id # ranked[1][2].company_id

\* sum(persona.weights.values()), in hundredths.
RECURSIVE SumOfWeights(_)
SumOfWeights(weights) ==
    IF weights = <<>> THEN 0 ELSE weights[1][2] + SumOfWeights(Tail(weights))

\* C19: for each of the five personas the weights of its weight map sum to
\* exactly 1.0, that is to 100 hundredths.
C19_WeightsSumToOne ==
    /\ \A p \in PersonaSet : SumOfWeights(get_persona(p).weights) = 100
    /\ SumOfWeights(get_persona(persona).weights) = 100

\* A ranking made with the weights of a persona of six weighted attributes,
\* and one made with the persona of five.
C19_Witness ==
    /\ ranked # None /\ ranked[1] # <<>>
    /\ persona \in {"growth_vc", "enterprise_buyer"}
    /\ Len(get_persona(persona).weights) \in {5, 6}

\* evals/evaluators.py score_in_range on the results of an output: 1 when
\* the list is not empty and every composite_score is within [0, 1], else 0.
score_in_range(results) ==
    IF results = <<>> THEN 0
    ELSE IF \E i \in 1..Len(results) :
               ~(0 <= results[i].composite_score /\ results[i].composite_score <= NormOne)
    THEN 0
    ELSE 1

\* C20 as stated: every composite_score of a result list is within [0, 1]:
\* score_in_range passes for every non-empty list the ranker returns.
C20_ScoreInRangePasses ==
    (ranked # None /\ ranked[1] # <<>>) => score_in_range(ranked[1]) = 1

-----------------------------------------------------------------------------
(* The fields of a ParsedQuery by intent, checked under SpecParse *)

\* C22: every ParsedQuery returned by parse_query has fields consistent with
\* its intent: competitors_to has a target and neither compare_company nor
\* acquirer; compare has target and compare_company and no acquirer;
\* acquisition_target has acquirer and target and no compare_company;
\* attribute_search has an attribute and none of the three identifiers; and
\* the attribute is None for every intent other than attribute_search.
C22_FieldsMatchIntent ==
    parsed # None =>
        /\ Parsed.query_type \in Intents
        /\ Parsed.query_type = "competitors_to" =>
              /\ Parsed.target_company # <<>>
              /\ Parsed.compare_company = <<>> /\ Parsed.acquirer = <<>>
        /\ Parsed.query_type = "compare" =>
              /\ Parsed.target_company # <<>> /\ Parsed.compare_company # <<>>
              /\ Parsed.acquirer = <<>>
        /\ Parsed.query_type = "acquisition_target" =>
              /\ Parsed.acquirer # <<>> /\ Parsed.target_company # <<>>
              /\ Parsed.compare_company = <<>>
        /\ Parsed.query_type = "attribute_search" =>
              /\ Parsed.attribute # None
              /\ Parsed.target_company = <<>> /\ Parsed.compare_company = <<>>
              /\ Parsed.acquirer = <<>>
        /\ Parsed.query_type # "attribute_search" => Parsed.attribute = None

\* An acquisition_target query with an acquirer and a different target.
C22_Witness ==
    /\ parsed # None
    /\ Parsed.query_type = "acquisition_target"
    /\ Parsed.acquirer # <<>>
    /\ Parsed.acquirer # Parsed.target_company

-----------------------------------------------------------------------------
(* One result per candidate, checked under SpecRank *)

\* How often an id occurs as company_id in a list of records.
Occurrences(id, seq) == Cardinality({i \in 1..Len(seq) : seq[i].company_id = id})

\* The keys of persona.weights.
WeightKeys(p) == {get_persona(p).weights[k][1] : k \in 1..Len(get_persona(p).weights)}

\* C28: rank_candidates returns exactly one RankedResult per input candidate:
\* the result ids are a permutation of the input ids (same length, every id
\* as often as in the input), each result's graph_context is the edge list
\* of its candidate, and each score_breakdown has exactly the keys of the
\* persona's weights plus _graph_boost.
C28_OneResultPerCandidate ==
    ranked # None =>
        /\ Len(Ranked) = Len(candidates)
        /\ \A k \in 1..Len(candidates) :
              Occurrences(candidates[k].company_id, Ranked)
                  = Occurrences(candidates[k].company_id, candidates)
        /\ \A k \in 1..Len(Ranked) :
              Occurrences(Ranked[k].company_id, Ranked)
                  = Occurrences(Ranked[k].company_id, candidates)
        /\ \A i \in 1..Len(Ranked) :
              /\ Ranked[i].graph_context = CandOf(Ranked[i].company_id).graph_edges
              /\ DOMAIN Ranked[i].score_breakdown = WeightKeys(persona) \cup {"_graph_boost"}

\* A ranking of at least two candidates that changed their order, the first
\* of them holding graph edges.
C28_Witness ==
    /\ ranked # None
    /\ Len(Ranked) >= 2
    /\ Ranked[1].company_id # candidates[1].company_id
    /\ Ranked[1].graph_context # <<>>

-----------------------------------------------------------------------------
(* The direct-competition boost against the strength, checked under SpecRank *)

\* The results whose candidate holds a direct-competition edge and no
\* disruption edge, as places of the returned list.
CompetesOnly ==
    {i \in 1..Len(Ranked) :
        /\ "COMPETES_WITH" \in EdgeTypes(CandOf(Ranked[i].company_id))
        /\ "DISRUPTS" \notin EdgeTypes(CandOf(Ranked[i].company_id))}

StrengthOf(i) == CandOf(Ranked[i].company_id).competition_strength

\* C29 as stated: of two candidates holding a direct-competition edge and no
\* disruption edge, with strengths s1 <= s2 in [0, 1], the second has a boost
\* at least as large as the first.
C29_BoostMonotone ==
    \A i, j \in CompetesOnly :
        StrengthOf(i) <= StrengthOf(j) => BoostOf(Ranked[i]) <= BoostOf(Ranked[j])

-----------------------------------------------------------------------------
(* The boost of acquisition targets, checked under SpecSearch *)

\* The strengths of the direct-competition edges of a result's graph_context.
CompetesEdgeStrengths(r) ==
    {r.graph_context[k].detail[1] :
        k \in {n \in 1..Len(r.graph_context) :
                  /\ r.graph_context[n].type = "COMPETES_WITH"
                  /\ r.graph_context[n].detail # None}}

ContextTypes(r) == {r.graph_context[k].type : k \in 1..Len(r.graph_context)}

\* C30 as stated: in the results of an acquisition_target search, a candidate
\* reached through a direct-competition edge of strength s, 0 < s <= 1, and
\* holding no disruption edge has the graph boost 0.15 * s, as a
\* competitors_to candidate of that edge strength has.
C30_AcquisitionBoostByStrength ==
    (BySearch /\ IsResult /\ Returned.query.query_type = "acquisition_target") =>
        \A i \in 1..Len(Returned.results) :
            \A s \in CompetesEdgeStrengths(Returned.results[i]) :
                (s > 0 /\ "DISRUPTS" \notin ContextTypes(Returned.results[i]))
                    => BoostOf(Returned.results[i]) = 15 * s

-----------------------------------------------------------------------------
(* search_all_personas, checked under SpecSearch *)

ByAllPersonas ==
    /\ outcome # None /\ outcome[1].handler = "search_all_personas"
    /\ Returned.kind = "by_persona"

-----------------------------------------------------------------------------
(* The graph-store driver of search, checked under SpecSearch *)

-----------------------------------------------------------------------------
(* agents/tools.py: the tools of the data-gathering loop, by what tools_node *)
(* reads of their JSON result                                               *)

\* A tool call of an AIMessage.
ToolCall(name, args) == [name |-> name, args |-> args]

\* The default min_strength of find_competitors, in hundredths.
DefaultMinStrength == 30

\* The result of a tool as tools_node reads it: result["tool"],
\* result["company_id"], result["acquirer"], result["candidates"], and for
\* compare_companies the comparison data.
ToolResult(tool, company_id, acquirer, cands, compare) ==
    [tool |-> tool, company_id |-> company_id, acquirer |-> acquirer,
     candidates |-> cands, compare |-> compare]

\* The filter of find_competitors: a candidate holding COMPETES_WITH edges
\* only and a strength below min_strength is left out.
PassesMinStrength(c) ==
    ~ /\ \A k \in 1..Len(c.graph_edges) : c.graph_edges[k].type = "COMPETES_WITH"
      /\ c.competition_strength < DefaultMinStrength

find_competitors(g, company_id) ==
    ToolResult("find_competitors", company_id, "",
               SelectSeq(get_competitors_to(g, company_id), PassesMinStrength), None)

find_acquisition_targets(g, acquirer, compete_with) ==
    ToolResult("find_acquisition_targets", "", acquirer,
               get_acquisition_targets(g, acquirer, compete_with), None)

search_by_attribute(g, attribute) ==
    ToolResult("search_by_attribute", "", "", get_attribute_ranked(g, attribute), None)

\* get_company_profile: the profile and no candidates; the error result,
\* which has no company_id, when the company is not in the graph.
get_company_profile(g, company_id) ==
    ToolResult("get_company_profile", IF company_id \in Nodes THEN company_id ELSE "",
               "", <<>>, None)

compare_companies(g, company_a, company_b) ==
    ToolResult("compare_companies", "", "", <<>>,
               Some(get_compare_data(g, company_a, company_b)))

\* content = {"error": "Unknown tool: ..."}: a result without any of the keys.
UnknownTool == ToolResult("", "", "", <<>>, None)

\* tool_fn.invoke(tool_args) followed by json.loads(content).
InvokeTool(g, tc) ==
    IF tc.name = "find_competitors" THEN find_competitors(g, tc.args[1])
    ELSE IF tc.name = "find_acquisition_targets"
    THEN find_acquisition_targets(g, tc.args[1], tc.args[2])
    ELSE IF tc.name = "search_by_attribute" THEN search_by_attribute(g, tc.args[1])
    ELSE IF tc.name = "get_company_profile" THEN get_company_profile(g, tc.args[1])
    ELSE IF tc.name = "compare_companies" THEN compare_companies(g, tc.args[1], tc.args[2])
    ELSE UnknownTool

-----------------------------------------------------------------------------
(* agents/nodes.py tools_node and agents/graph.py: the agent graph *)

\* The special handling of compare_companies: both profiles, when there are
\* any, and the common competitors are put into gathered_candidates.
PutCompared(gath, compare) ==
    Accumulate(gath, compare.company_a \o compare.company_b \o compare.common_competitors)

\* The updates of tools_node for one parsed tool result, on the locals
\* gathered_candidates, compare_data and center_company_id.
ToolUpdate(acc, result) ==
    [ gathered_candidates |->
          IF result.tool = "compare_companies"
          THEN PutCompared(Accumulate(acc.gathered_candidates, result.candidates),
                           result.compare[1])
          ELSE Accumulate(acc.gathered_candidates, result.candidates),
      compare_data |->
          IF result.tool = "compare_companies" THEN result.compare ELSE acc.compare_data,
      center_company_id |->
          IF acc.center_company_id = ""
             /\ result.tool \in {"find_competitors", "get_company_profile",
                                 "find_acquisition_targets"}
          THEN (IF result.company_id # "" THEN result.company_id ELSE result.acquirer)
          ELSE acc.center_company_id ]

\* The loop of tools_node over last_message.tool_calls.
RECURSIVE ToolsLoop(_, _, _)
ToolsLoop(acc, g, tool_calls) ==
    IF tool_calls = <<>> THEN acc
    ELSE ToolsLoop(ToolUpdate(acc, InvokeTool(g, tool_calls[1])), g, Tail(tool_calls))

\* tools_node(state): the gathered_candidates, compare_data and
\* center_company_id it returns, starting from those of the state.
tools_node(gath, st, g) ==
    ToolsLoop([gathered_candidates |-> gath, compare_data |-> st.compare_data,
               center_company_id |-> st.center_company_id], g, st.tool_calls)

\* _tools_condition: "tools" when the last AIMessage has tool calls, else
\* END, which build_graph maps to "rank".
_tools_condition(st) == IF st.tool_calls # <<>> THEN "tools" ELSE "rank"

\* The conditional edge after rank taking explain whenever it was asked for.
should_explain_despite_error(st) ==
    IF ~st.include_explanation THEN "synthesize" ELSE "explain"

\* _should_explain: explain is skipped when the state carries an error or
\* include_explanation is off.
_should_explain(st) ==
    IF st.error THEN "synthesize"
    ELSE IF ~st.include_explanation THEN "synthesize"
    ELSE "explain"

\* run_agent: agent.invoke(initial_state, {"recursion_limit": 25}).
RecursionLimit == 25

-----------------------------------------------------------------------------
(* SpecAgent: one run of run_agent, the LLM's tool calls drawn *)

\* The tool calls an AIMessage of the drawn LLM may carry: none (the loop is
\* left), one call of a tool, or two calls of which one names no tool.
ToolCallLists ==
    { <<>>,
      <<ToolCall("find_competitors", <<NodeSeq[1]>>)>>,
      <<ToolCall("search_by_attribute", <<"moat_durability">>)>>,
      <<ToolCall("compare_companies", <<NodeSeq[1], NodeSeq[2]>>)>>,
      <<ToolCall("find_acquisition_targets", <<NodeSeq[2], NodeSeq[1]>>)>>,
      <<ToolCall("get_company_profile", <<NodeSeq[2]>>), ToolCall("no_such_tool", <<>>)>> }

AgentTexts ==
    { <<"competitors to">> \o snowflake,
      <<"which">> \o <<"moat">> }

\* The graph of the drawn runs.
AgentGraph ==
    DrawnGraph([segs |-> {"s1"}, themes |-> {"t1"}, self |-> FALSE],
               [n \in Nodes \ {NodeSeq[1]} |->
                   RelProfile({<<"out", Some(50)>>, <<"in", Some(100)>>}, {"s1"}, {},
                              {"out"}, FALSE)])

\* initial_state of run_agent, the entry point of the graph.
InitAgent ==
    /\ query_text \in AgentTexts
    /\ caller_persona = "growth_vc"
    /\ fail_at \in {0, 1}
    /\ graph = AgentGraph
    /\ gathered = <<>>
    /\ outcome = None
    /\ next_node = "data_gathering"
    /\ executed = <<>>
    /\ \E include_explanation \in BOOLEAN :
          agent_state = [ tool_calls          |-> <<>>,
                          compare_data        |-> None,
                          center_company_id   |-> "",
                          include_explanation |-> include_explanation,
                          search_result       |-> None,
                          error               |-> FALSE,
                          explanation         |-> None,
                          synthesized         |-> None ]
    /\ center = NodeSeq[1] /\ retrieved = None /\ acquirer_id = "" /\ acquired = None
    /\ candidates = <<>> /\ persona = "value_investor" /\ ranked = None /\ earlier = None
    /\ parsed = None /\ rung = "" /\ resolved = None
    /\ company_lookup = None /\ callers = <<>> /\ catalog_reads = 0

\* A node runs while the run has steps left.
Runs(node) == next_node = node /\ Len(executed) < RecursionLimit

\* data_gathering_node: the AIMessage of the LLM is appended; an exception
\* gives an AIMessage without tool calls.
DataGathering ==
    /\ Runs("data_gathering")
    /\ \E tool_calls \in ToolCallLists :
          /\ agent_state' = [agent_state EXCEPT !.tool_calls = tool_calls]
          /\ next_node' = _tools_condition([agent_state EXCEPT !.tool_calls = tool_calls])
    /\ executed' = Append(executed, "data_gathering")
    /\ UNCHANGED <<caller_persona, fail_at, gathered, outcome, rankVars, parseVars, graphVars, lookupVars>>

\* tools_node, then the edge back to data_gathering.  The ToolMessages that
\* are appended carry no tool calls.
Tools ==
    /\ Runs("tools")
    /\ gathered' = tools_node(gathered, agent_state, graph).gathered_candidates
    /\ agent_state' =
          [agent_state EXCEPT
              !.compare_data = tools_node(gathered, agent_state, graph).compare_data,
              !.center_company_id =
                  tools_node(gathered, agent_state, graph).center_company_id,
              !.tool_calls = <<>>]
    /\ next_node' = "data_gathering"
    /\ executed' = Append(executed, "tools")
    /\ UNCHANGED <<caller_persona, fail_at, outcome, rankVars, parseVars, graphVars, lookupVars>>

\* The state after rank_node returned: search_result, or error.
AfterRank(st, returned) ==
    IF returned.kind = "result"
    THEN [st EXCEPT !.search_result = Some(returned)]
    ELSE [st EXCEPT !.error = TRUE]

\* rank_node, then the conditional edge _should_explain.
Rank ==
    /\ Runs("rank")
    /\ outcome' = Some([handler  |-> "rank_node",
                        returned |-> rank_node(query_text, caller_persona, graph, gathered,
                                               agent_state.compare_data # None,
                                               agent_state.center_company_id, fail_at)])
    /\ agent_state' = AfterRank(agent_state, outcome'[1].returned)
    /\ next_node' = _should_explain(agent_state')
    /\ executed' = Append(executed, "rank")
    /\ UNCHANGED <<caller_persona, fail_at, gathered, rankVars, parseVars, graphVars, lookupVars>>

\* explain_node: the explanation of the LLM, or error when there is no
\* search_result or generate_explanation raises.
Explain ==
    /\ Runs("explain")
    /\ \E generated \in BOOLEAN :
          agent_state' =
              IF agent_state.search_result = None \/ ~generated
              THEN [agent_state EXCEPT !.error = TRUE]
              ELSE [agent_state EXCEPT !.explanation = Some("narrative")]
    /\ next_node' = "synthesize"
    /\ executed' = Append(executed, "explain")
    /\ UNCHANGED <<caller_persona, fail_at, gathered, outcome, rankVars, parseVars, graphVars, lookupVars>>

\* synthesize_node: the response built from search_result and explanation,
\* or the error response when there is no search_result; then END.
Synthesize ==
    /\ Runs("synthesize")
    /\ agent_state' =
          [agent_state EXCEPT !.synthesized =
              IF agent_state.search_result = None
              THEN Some([error |-> TRUE])
              ELSE Some([error       |-> FALSE,
                         results     |-> agent_state.search_result[1].results,
                         explanation |-> agent_state.explanation])]
    /\ next_node' = "END"
    /\ executed' = Append(executed, "synthesize")
    /\ UNCHANGED <<caller_persona, fail_at, gathered, outcome, rankVars, parseVars, graphVars, lookupVars>>

\* agent.invoke out of steps: after recursion_limit steps with a node still
\* to run, GraphRecursionError is raised and leaves run_agent.
RecursionError ==
    /\ next_node \in {"data_gathering", "tools", "rank", "explain", "synthesize"}
    /\ Len(executed) = RecursionLimit
    /\ next_node' = "GraphRecursionError"
    /\ UNCHANGED <<executed, agent_state, searchVars, rankVars, parseVars, graphVars, lookupVars>>

NextAgent == DataGathering \/ Tools \/ Rank \/ Explain \/ Synthesize \/ RecursionError

SpecAgent == InitAgent /\ [][NextAgent]_vars

-----------------------------------------------------------------------------
(* Properties of the agent graph, checked under SpecAgent *)

\* The places of a node in the list of executed nodes.
PlacesOf(node) == {i \in 1..Len(executed) : executed[i] = node}

\* The place of rank in a run that ended.
RankPlace == CHOOSE i \in 1..Len(executed) : executed[i] = "rank"

\* C24: in a run that reached END the nodes ran in the order data_gathering,
\* tools, data_gathering, ..., data_gathering, then rank exactly once, then
\* explain at most once, then synthesize exactly once as the last node; and
\* explain ran if and only if the state after rank carried no error and
\* include_explanation is true.
C24_NodeOrder ==
    next_node = "END" =>
        /\ Cardinality(PlacesOf("rank")) = 1
        /\ RankPlace % 2 = 0
        /\ \A i \in 1..(RankPlace - 1) :
              executed[i] = IF i % 2 = 1 THEN "data_gathering" ELSE "tools"
        /\ SubSeq(executed, RankPlace + 1, Len(executed))
              \in {<<"synthesize">>, <<"explain", "synthesize">>}
        /\ (PlacesOf("explain") # {})
              <=> (outcome[1].returned.kind = "result" /\ agent_state.include_explanation)

\* A run that ended after two rounds of tools, with explain; and one that
\* ended without explain because rank left an error.
C24_Witness ==
    /\ next_node = "END"
    /\ Cardinality(PlacesOf("tools")) >= 2
    /\ \/ PlacesOf("explain") # {}
       \/ (agent_state.include_explanation /\ outcome[1].returned.kind = "error")

\* The nodes of the graph.
AgentNodes == {"data_gathering", "tools", "rank", "explain", "synthesize"}

\* C25 as stated: whatever tool calls the LLM keeps requesting, a run that
\* is over (no node is left to run) has left the data_gathering / tools
\* loop, has run rank and synthesize and carries the synthesized response
\* (or an error response); it was not left without one.
C25_RunReturnsResponse ==
    next_node \notin AgentNodes =>
        /\ next_node = "END"
        /\ PlacesOf("rank") # {} /\ PlacesOf("synthesize") # {}
        /\ agent_state.synthesized # None

\* C26 as stated: across the tools steps an identifier once gathered is never
\* removed, and the graph edges recorded for a gathered company by earlier
\* tool calls are still in its gathered record after a later tool result
\* returned the company again.
C26_GatheredAccumulates ==
    [][\A i \in 1..Len(gathered) :
          \E j \in 1..Len(gathered') :
              /\ gathered'[j].company_id = gathered[i].company_id
              /\ \A k \in 1..Len(gathered[i].graph_edges) :
                    \E m \in 1..Len(gathered'[j].graph_edges) :
                        gathered'[j].graph_edges[m] = gathered[i].graph_edges[k]]_vars

-----------------------------------------------------------------------------
(* SpecLookup: concurrent first calls of resolve_company, each through the *)
(* lazy _build_lookup                                                       *)

\* The threads of the process that call resolve_company.
CallerThreads == {"t1", "t2", "t3"}

\* The names the callers resolve.
CallerNames == {snowflake, <<"c", "3">>, <<"x", "y", "z">>}

\* The dict built by one run of lines 109-120 of _build_lookup: the table,
\* and the thread that built it to tell one dict object from another.
BuiltLookup(t) == [built_by |-> t, table |-> _build_lookup]

InitLookup ==
    /\ company_lookup = None
    /\ \E names \in [CallerThreads -> CallerNames] :
          callers = [t \in CallerThreads |->
                        [pc |-> "call", name |-> names[t], lookup |-> None, result |-> None]]
    /\ catalog_reads = 0
    /\ candidates = <<>> /\ persona = "value_investor" /\ ranked = None /\ earlier = None
    /\ query_text = <<>> /\ parsed = None /\ rung = "" /\ resolved = None
    /\ graph = <<>> /\ center = "" /\ retrieved = None
    /\ acquirer_id = "" /\ acquired = None
    /\ caller_persona = "" /\ fail_at = 0 /\ gathered = <<>> /\ outcome = None
    /\ next_node = "" /\ executed = <<>> /\ agent_state = <<>>

\* resolve_company calls _build_lookup, which tests "_COMPANY_LOOKUP is not
\* None" and returns the global when it is set.
CheckLookup(t) ==
    /\ callers[t].pc = "call"
    /\ callers' = [callers EXCEPT ![t] =
                      IF company_lookup # None
                      THEN [@ EXCEPT !.pc = "resolve", !.lookup = company_lookup]
                      ELSE [@ EXCEPT !.pc = "build"]]
    /\ UNCHANGED <<company_lookup, catalog_reads,
                   rankVars, parseVars, graphVars, searchVars, agentVars>>

\* The global was None: COMPANIES_FILE is opened and read and the table is
\* built in the local lookup.
ReadCatalog(t) ==
    /\ callers[t].pc = "build"
    /\ catalog_reads' = catalog_reads + 1
    /\ callers' = [callers EXCEPT ![t] =
                      [@ EXCEPT !.pc = "assign", !.lookup = Some(BuiltLookup(t))]]
    /\ UNCHANGED <<company_lookup, rankVars, parseVars, graphVars, searchVars, agentVars>>

\* _COMPANY_LOOKUP = lookup; return lookup.
AssignLookup(t) ==
    /\ callers[t].pc = "assign"
    /\ company_lookup' = callers[t].lookup
    /\ callers' = [callers EXCEPT ![t] = [@ EXCEPT !.pc = "resolve"]]
    /\ UNCHANGED <<catalog_reads, rankVars, parseVars, graphVars, searchVars, agentVars>>

\* The rest of resolve_company, on the table _build_lookup returned.
ResolveWithLookup(t) ==
    /\ callers[t].pc = "resolve"
    /\ callers' = [callers EXCEPT ![t] =
                      [@ EXCEPT !.pc = "done",
                                !.result = Some(resolve_company(callers[t].name))]]
    /\ UNCHANGED <<company_lookup, catalog_reads,
                   rankVars, parseVars, graphVars, searchVars, agentVars>>

NextLookup ==
    \E t \in CallerThreads :
        CheckLookup(t) \/ ReadCatalog(t) \/ AssignLookup(t) \/ ResolveWithLookup(t)

SpecLookup == InitLookup /\ [][NextLookup]_vars

\* C21 as stated: under any interleaving of concurrent first calls the
\* catalog is read and the table built at most once, the table set by the
\* first build is never replaced, and every caller observes that same table.
C21_BuiltOnce ==
    /\ catalog_reads <= 1
    /\ \A t, u \in CallerThreads :
          (callers[t].lookup # None /\ callers[u].lookup # None)
              => callers[t].lookup = callers[u].lookup
    /\ \A t \in CallerThreads :
          (callers[t].pc \in {"resolve", "done"} /\ company_lookup # None)
              => callers[t].lookup = company_lookup

====
